---- MODULE Spec2Model ----
(***************************************************************************)
(* Timeline engine of the restaurant reservation system: the drag session  *)
(* (create / move / resize / cancel), the slot <-> time transforms, the    *)
(* row layout used for hit-testing, the conflict detector and the store    *)
(* mutations that a released gesture leads to.                             *)
(*                                                                         *)
(* Times are whole minutes since startOfDay(selectedDate): 12:00 is 720,   *)
(* 24:00 (midnight ending the day) is 1440.  A Date and its ISO string     *)
(* denote the same instant, so toISOString / parseISO are the identity on  *)
(* this representation.  Pixels are integers.                              *)
(***************************************************************************)
EXTENDS Integers, Sequences, FiniteSets, TLC

VARIABLES
  reservations,     \* store.reservations: sequence of reservation records
  past,             \* store.past: undo history (sequence of reservation lists)
  future,           \* store.future: redo history
  dragState,        \* store.dragState
  zoomLevel,        \* store.zoomLevel
  collapsedSectors, \* store.collapsedSectors
  sheetOpen,        \* TimelineGrid: create sheet open flag
  sheetData,        \* TimelineGrid: create result handed to the sheet
  created,          \* number of reservations created so far (fresh ids)
  gestures,         \* number of pointer-downs so far
  last,             \* observation of the last event: kind, session before it,
                    \* subject reservation before it, live conflict flag, result
  scroll,           \* scroll position of the timeline and its throttling refs
  twin              \* a second timeline over the same data, with its own viewport

vars == <<reservations, past, future, dragState, zoomLevel, collapsedSectors,
          sheetOpen, sheetData, created, gestures, last, scroll,
          twin>>

NULL == "null"

\* ---------------------------------------------------------------- bounds
MaxGestures == 1
MaxCreated == 1
MaxScrollEvents == 3
MaxEdits == 2
MaxHistorySteps == 5

\* ------------------------------------------------------ program constants
SLOT_MINUTES == 15
START_HOUR == 11
END_HOUR == 24
BASE_SLOT_WIDTH == 60
BASE_ROW_HEIGHT == 60
BASE_sectorHeaderHeight == 32
MAX_HISTORY_SIZE == 50
MIN_DURATION == 30
MAX_DURATION == 360
EDGE_MARGIN == 12
MIN_BLOCK_WIDTH == 40
ZOOM_LEVELS == <<50, 75, 100, 125, 150>>
OVERSCAN_COLUMNS == 40
OVERSCAN_ROWS == 5
SCROLL_THRESHOLD == 50

\* ------------------------------------------------------------- arithmetic
Max(a, b) == IF a >= b THEN a ELSE b
Min(a, b) == IF a <= b THEN a ELSE b

\* Math.ceil(a / b) and Math.round(a / b) for integer a and positive b
\* (Math.round rounds halves towards +infinity).
CeilDiv(a, b) == -((-a) \div b)
RoundDiv(a, b) == (2 * a + b) \div (2 * b)

\* date-fns addMinutes
addMinutes(t, m) == t + m

\* ------------------------------------------------------- timeCalculations
getOperatingMinutes == (END_HOUR - START_HOUR) * 60
getTotalSlots == getOperatingMinutes \div SLOT_MINUTES

\* setMinutes(setHours(startOfDay(referenceDate), START_HOUR), 0)
operatingStart == START_HOUR * 60

timeToSlotIndex_clamped(time) == Max(0, (time - operatingStart) \div SLOT_MINUTES)
timeToSlotIndex(time) == (time - operatingStart) \div SLOT_MINUTES

slotIndexToTime_fromNoon(slotIndex) == addMinutes(12 * 60, slotIndex * SLOT_MINUTES)
slotIndexToTime(slotIndex) == addMinutes(operatingStart, slotIndex * SLOT_MINUTES)

durationToSlots(durationMinutes) == CeilDiv(durationMinutes, SLOT_MINUTES)
slotsToDuration(slots) == slots * SLOT_MINUTES

snapToSlotIndex(position, slotWidth) == RoundDiv(position, slotWidth)

clampSlotIndex_upperOnly(slotIndex) == Min(slotIndex, getTotalSlots - 1)
clampSlotIndex(slotIndex) == Max(0, Min(slotIndex, getTotalSlots - 1))

getSlotWidth(zoom) == (BASE_SLOT_WIDTH * zoom) \div 100
getRowHeight(zoom) == (BASE_ROW_HEIGHT * zoom) \div 100
getSectorHeaderHeight(zoom) == (BASE_sectorHeaderHeight * zoom) \div 100

\* useDragAndDrop.getSlotFromX, with x = clientX - gridRect.left
getSlotFromX(x, zoom) == clampSlotIndex(snapToSlotIndex(x, getSlotWidth(zoom)))

\* ------------------------------------------------- reference data (seed)
sectors ==
  << [id |-> "S1", sortOrder |-> 0],
     [id |-> "S2", sortOrder |-> 1] >>

tables ==
  << [id |-> "T1", sectorId |-> "S1", capMin |-> 2, capMax |-> 2, sortOrder |-> 0],
     [id |-> "T2", sectorId |-> "S1", capMin |-> 2, capMax |-> 4, sortOrder |-> 1],
     [id |-> "T3", sectorId |-> "S1", capMin |-> 4, capMax |-> 6, sortOrder |-> 2],
     [id |-> "T4", sectorId |-> "S2", capMin |-> 2, capMax |-> 4, sortOrder |-> 0],
     [id |-> "T5", sectorId |-> "S2", capMin |-> 4, capMax |-> 8, sortOrder |-> 1] >>

SectorIds == {sectors[i].id : i \in 1..Len(sectors)}
TableIds == {tables[i].id : i \in 1..Len(tables)}

\* ---------------------------------------------------------------- layout
RECURSIVE SortBySortOrder(_)
\* [...xs].sort((a, b) => a.sortOrder - b.sortOrder): stable insertion of the
\* head into the sorted tail.
SortBySortOrder(xs) ==
  IF xs = <<>> THEN <<>>
  ELSE LET rest == SortBySortOrder(Tail(xs))
           h == Head(xs)
           before == SelectSeq(rest, LAMBDA r : r.sortOrder < h.sortOrder)
           after == SelectSeq(rest, LAMBDA r : r.sortOrder >= h.sortOrder)
       IN before \o <<h>> \o after

RECURSIVE FlattenSeq(_)
FlattenSeq(ss) == IF ss = <<>> THEN <<>> ELSE Head(ss) \o FlattenSeq(Tail(ss))

getTablesWithSectors_ignoresCollapsed(tbls, secs, collapsed) ==
  LET sortedSectors == SortBySortOrder(secs)
      rowsOf(sector) ==
        SortBySortOrder(SelectSeq(tbls, LAMBDA t : t.sectorId = sector.id))
  IN FlattenSeq([i \in 1..Len(sortedSectors) |-> rowsOf(sortedSectors[i])])
\* gridHelpers.getTablesWithSectors: the tables of the non-collapsed sectors,
\* sector by sector in sortOrder, each sector's tables in sortOrder.
getTablesWithSectors(tbls, secs, collapsed) ==
  LET sortedSectors == SortBySortOrder(secs)
      rowsOf(sector) ==
        IF sector.id \in collapsed THEN <<>>
        ELSE SortBySortOrder(SelectSeq(tbls, LAMBDA t : t.sectorId = sector.id))
  IN FlattenSeq([i \in 1..Len(sortedSectors) |-> rowsOf(sortedSectors[i])])

RECURSIVE LayoutWalk(_, _, _, _, _)
\* TimelineGrid tableYOffsets / sectorHeaderPositions: one pass with a running
\* cursor over the sorted sectors.  Returns [offsets, headers, y].
LayoutWalk(secs, tws, headerH, rowH, acc) ==
  IF secs = <<>> THEN acc
  ELSE LET sector == Head(secs)
           sectorTables == SelectSeq(tws, LAMBDA t : t.sectorId = sector.id)
           y0 == acc.y + headerH
           offs == [i \in 1..Len(sectorTables) |->
                      [id |-> sectorTables[i].id, y |-> y0 + (i - 1) * rowH]]
       IN LayoutWalk(Tail(secs), tws, headerH, rowH,
                     [offsets |-> acc.offsets \o offs,
                      headers |-> Append(acc.headers, [id |-> sector.id, y |-> acc.y]),
                      y |-> y0 + Len(sectorTables) * rowH])

\* useGridLayout: sorted (and filtered) sectors, rendered tables, offsets of
\* the table rows, positions of the sector headers, grid height; cursor is
\* currentY when the walk ends
useGridLayout(secs, tbls, collapsed, filterSectorIds, rowHeight, sectorHeaderHeight) ==
  LET filtered == IF filterSectorIds # {}
                  THEN SelectSeq(secs, LAMBDA sec : sec.id \in filterSectorIds)
                  ELSE secs
      sortedSectors == SortBySortOrder(filtered)
      tablesWithSectors == getTablesWithSectors(tbls, sortedSectors, collapsed)
      walk == LayoutWalk(sortedSectors, tablesWithSectors, sectorHeaderHeight, rowHeight,
                         [offsets |-> <<>>, headers |-> <<>>, y |-> 0])
  IN [sortedSectors |-> sortedSectors,
      tablesWithSectors |-> tablesWithSectors,
      tableYOffsets |-> walk.offsets,
      sectorHeaderPositions |-> walk.headers,
      gridHeight |-> Len(sortedSectors) * sectorHeaderHeight
                     + Len(tablesWithSectors) * rowHeight,
      cursor |-> walk.y]

computeLayout(collapsed, zoom) ==
  LET sortedSectors == SortBySortOrder(sectors)
      tws == getTablesWithSectors(tables, sortedSectors, collapsed)
  IN LayoutWalk(sortedSectors, tws, getSectorHeaderHeight(zoom), getRowHeight(zoom),
                [offsets |-> <<>>, headers |-> <<>>, y |-> 0])

\* TimelineGrid.getTableByYPosition / getTableIdByY: first table row that
\* contains y, or null.
getTableIdByY(y, collapsed, zoom) ==
  LET offs == computeLayout(collapsed, zoom).offsets
      hits == SelectSeq(offs, LAMBDA o : y >= o.y /\ y < o.y + getRowHeight(zoom))
  IN IF hits = <<>> THEN NULL ELSE hits[1].id

\* TimelineGrid.getTableByYPosition over a layout: the first table of
\* tablesWithSectors whose offset is defined and whose row contains y, or null
getTableByYPosition_inclusiveEnd(tablesWithSectors, tableYOffsets, rowHeight, y) ==
  LET hits == SelectSeq(tablesWithSectors, LAMBDA table :
                \E k \in DOMAIN tableYOffsets :
                  /\ tableYOffsets[k].id = table.id
                  /\ y >= tableYOffsets[k].y
                  /\ y <= tableYOffsets[k].y + rowHeight)
  IN IF hits = <<>> THEN NULL ELSE hits[1].id
getTableByYPosition(tablesWithSectors, tableYOffsets, rowHeight, y) ==
  LET hits == SelectSeq(tablesWithSectors, LAMBDA table :
                \E k \in DOMAIN tableYOffsets :
                  /\ tableYOffsets[k].id = table.id
                  /\ y >= tableYOffsets[k].y
                  /\ y < tableYOffsets[k].y + rowHeight)
  IN IF hits = <<>> THEN NULL ELSE hits[1].id

\* TimelineGrid visibleRange (and useGridVirtualization.visibleRange): the
\* column and pixel range to render for a viewport
\* [scrollLeft, scrollTop, viewportWidth, viewportHeight]
visibleRange_noOverscan(viewport, slotWidth, rowHeight, totalSlots) ==
  IF viewport.viewportWidth = 0 \/ viewport.viewportHeight = 0
  THEN [startCol |-> 0, endCol |-> Min(totalSlots, 60), startY |-> 0, endY |-> 2000]
  ELSE [startCol |-> Max(0, viewport.scrollLeft \div slotWidth),
        endCol |-> Min(totalSlots,
                       CeilDiv(viewport.scrollLeft + viewport.viewportWidth, slotWidth)),
        startY |-> Max(0, viewport.scrollTop),
        endY |-> viewport.scrollTop + viewport.viewportHeight]
visibleRange(viewport, slotWidth, rowHeight, totalSlots) ==
  IF viewport.viewportWidth = 0 \/ viewport.viewportHeight = 0
  THEN [startCol |-> 0, endCol |-> Min(totalSlots, 60), startY |-> 0, endY |-> 2000]
  ELSE [startCol |-> Max(0, viewport.scrollLeft \div slotWidth - OVERSCAN_COLUMNS),
        endCol |-> Min(totalSlots,
                       CeilDiv(viewport.scrollLeft + viewport.viewportWidth, slotWidth)
                       + OVERSCAN_COLUMNS),
        startY |-> Max(0, viewport.scrollTop - OVERSCAN_ROWS * rowHeight),
        endY |-> viewport.scrollTop + viewport.viewportHeight
                 + OVERSCAN_ROWS * rowHeight]

\* a table is rendered (has rows) when its sector is not collapsed
isTableRendered(tableId, collapsed) ==
  \E i \in 1..Len(tables) : tables[i].id = tableId /\ tables[i].sectorId \notin collapsed

\* ------------------------------------------------------ conflict detector
\* date-fns areIntervalsOverlapping (exclusive of touching endpoints)
areIntervalsOverlapping_startInside(leftStart, leftEnd, rightStart, rightEnd) ==
  rightStart <= leftStart /\ leftStart < rightEnd
areIntervalsOverlapping_inclusive(leftStart, leftEnd, rightStart, rightEnd) ==
  leftStart <= rightEnd /\ rightStart <= leftEnd
areIntervalsOverlapping(leftStart, leftEnd, rightStart, rightEnd) ==
  leftStart < rightEnd /\ rightStart < leftEnd

checkReservationConflict_firstOnly(reservation, existingReservations, excludeId) ==
  IF reservation.tableId = NULL
  THEN [hasConflict |-> FALSE, conflictingReservationIds |-> <<>>]
  ELSE LET conflicting ==
             SelectSeq(existingReservations, LAMBDA existing :
               /\ ~(excludeId # NULL /\ existing.id = excludeId)
               /\ existing.tableId = reservation.tableId
               /\ existing.status # "CANCELLED"
               /\ areIntervalsOverlapping(reservation.startTime, reservation.endTime,
                                          existing.startTime, existing.endTime))
           ids == IF conflicting = <<>> THEN <<>> ELSE <<conflicting[1].id>>
       IN [hasConflict |-> Len(ids) > 0, conflictingReservationIds |-> ids]
checkReservationConflict_noExclude(reservation, existingReservations, excludeId) ==
  IF reservation.tableId = NULL
  THEN [hasConflict |-> FALSE, conflictingReservationIds |-> <<>>]
  ELSE LET conflicting ==
             SelectSeq(existingReservations, LAMBDA existing :
               /\ existing.tableId = reservation.tableId
               /\ existing.status # "CANCELLED"
               /\ areIntervalsOverlapping(reservation.startTime, reservation.endTime,
                                          existing.startTime, existing.endTime))
           ids == [i \in 1..Len(conflicting) |-> conflicting[i].id]
       IN [hasConflict |-> Len(ids) > 0, conflictingReservationIds |-> ids]
checkReservationConflict_countsCancelled(reservation, existingReservations, excludeId) ==
  IF reservation.tableId = NULL
  THEN [hasConflict |-> FALSE, conflictingReservationIds |-> <<>>]
  ELSE LET conflicting ==
             SelectSeq(existingReservations, LAMBDA existing :
               /\ ~(excludeId # NULL /\ existing.id = excludeId)
               /\ existing.tableId = reservation.tableId
               /\ areIntervalsOverlapping(reservation.startTime, reservation.endTime,
                                          existing.startTime, existing.endTime))
           ids == [i \in 1..Len(conflicting) |-> conflicting[i].id]
       IN [hasConflict |-> Len(ids) > 0, conflictingReservationIds |-> ids]
\* gridHelpers.checkReservationConflict; excludeId = NULL when not given
checkReservationConflict(reservation, existingReservations, excludeId) ==
  IF reservation.tableId = NULL
  THEN [hasConflict |-> FALSE, conflictingReservationIds |-> <<>>]
  ELSE LET conflicting ==
             SelectSeq(existingReservations, LAMBDA existing :
               /\ ~(excludeId # NULL /\ existing.id = excludeId)
               /\ existing.tableId = reservation.tableId
               /\ existing.status # "CANCELLED"
               /\ areIntervalsOverlapping(reservation.startTime, reservation.endTime,
                                          existing.startTime, existing.endTime))
           ids == [i \in 1..Len(conflicting) |-> conflicting[i].id]
       IN [hasConflict |-> Len(ids) > 0, conflictingReservationIds |-> ids]

\* useConflictDetection.checkConflict over the store's reservation list
checkConflict(reservation, excludeId, resList) ==
  checkReservationConflict(reservation, resList, excludeId)

RECURSIVE SortByCapacityMax(_)
\* [...].sort((a, b) => a.capacity.max - b.capacity.max): stable
SortByCapacityMax(xs) ==
  IF xs = <<>> THEN <<>>
  ELSE LET rest == SortByCapacityMax(Tail(xs))
           h == Head(xs)
           before == SelectSeq(rest, LAMBDA r : r.capMax < h.capMax)
           after == SelectSeq(rest, LAMBDA r : r.capMax >= h.capMax)
       IN before \o <<h>> \o after

findAlternativeTables_unsorted(tbls, partySize, excludeTableId) ==
  SelectSeq(SelectSeq(tbls, LAMBDA t : t.id # excludeTableId),
            LAMBDA t : partySize >= t.capMin /\ partySize <= t.capMax)
\* gridHelpers.findAlternativeTables; excludeTableId = NULL when not given
findAlternativeTables(tbls, partySize, excludeTableId) ==
  SortByCapacityMax(
    SelectSeq(SelectSeq(tbls, LAMBDA t : t.id # excludeTableId),
              LAMBDA t : partySize >= t.capMin /\ partySize <= t.capMax))

\* gridHelpers.findAlternativeTimeSlots: the offsets are tried in the listed
\* order, each against the whole list (no excluded id)
findAlternativeTimeSlots_byProximity(tableId, startTime, durationMinutes, resList) ==
  LET offsets == <<-15, 15, -30, 30>>
      altStarts == [i \in 1..Len(offsets) |-> startTime + offsets[i]]
  IN SelectSeq(altStarts, LAMBDA altStart :
       ~checkReservationConflict([tableId |-> tableId, startTime |-> altStart,
                                  endTime |-> altStart + durationMinutes],
                                 resList, NULL).hasConflict)
findAlternativeTimeSlots(tableId, startTime, durationMinutes, resList) ==
  LET offsets == <<-30, -15, 15, 30>>
      altStarts == [i \in 1..Len(offsets) |-> startTime + offsets[i]]
  IN SelectSeq(altStarts, LAMBDA altStart :
       ~checkReservationConflict([tableId |-> tableId, startTime |-> altStart,
                                  endTime |-> altStart + durationMinutes],
                                 resList, NULL).hasConflict)

\* ------------------------------------------------------------------ store
NoSlot == -1
NoReservation == [id |-> NULL]
NoResult == [kind |-> "none"]

initialDragState ==
  [isDragging |-> FALSE, dragType |-> NULL, startSlot |-> NoSlot,
   endSlot |-> NoSlot, tableId |-> NULL, reservationId |-> NULL]

\* store.setDragState: merge a partial drag state into the current one
setDragState(ds, partial) ==
  [f \in DOMAIN ds |-> IF f \in DOMAIN partial THEN partial[f] ELSE ds[f]]

\* store.resetDragState: replace the session by the initial one
resetDragState_flagOnly(ds) == [ds EXCEPT !.isDragging = FALSE]
resetDragState(ds) == initialDragState

\* store.getReservationById
getReservationById(id, resList) ==
  LET found == SelectSeq(resList, LAMBDA r : r.id = id)
  IN IF found = <<>> THEN NoReservation ELSE found[1]

\* store saveToHistory
saveToHistory_uncapped(pastList, resList) ==
  [past |-> Append(pastList, resList), future |-> <<>>]
saveToHistory(pastList, resList) ==
  LET newPast == Append(pastList, resList)
  IN [past |-> IF Len(newPast) > MAX_HISTORY_SIZE THEN Tail(newPast) ELSE newPast,
      future |-> <<>>]

\* store.addReservation
storeAddReservation(st, reservation) ==
  LET h == saveToHistory(st.past, st.reservations)
  IN [reservations |-> Append(st.reservations, reservation),
      past |-> h.past, future |-> h.future]

\* store.updateReservation: updates is a record holding the changed fields
storeUpdateReservation_everyRow(st, id, updates) ==
  LET h == saveToHistory(st.past, st.reservations)
  IN [reservations |->
        [i \in 1..Len(st.reservations) |->
           [f \in DOMAIN st.reservations[i] |->
              IF f \in DOMAIN updates THEN updates[f] ELSE st.reservations[i][f]]],
      past |-> h.past, future |-> h.future]
storeUpdateReservation(st, id, updates) ==
  LET h == saveToHistory(st.past, st.reservations)
  IN [reservations |->
        [i \in 1..Len(st.reservations) |->
           IF st.reservations[i].id = id
           THEN [f \in DOMAIN st.reservations[i] |->
                   IF f \in DOMAIN updates THEN updates[f] ELSE st.reservations[i][f]]
           ELSE st.reservations[i]],
      past |-> h.past, future |-> h.future]

tableById(tableId) ==
  LET found == SelectSeq(tables, LAMBDA t : t.id = tableId)
  IN IF found = <<>> THEN [id |-> NULL] ELSE found[1]

\* --------------------------------------------------- useReservationActions
\* createReservation(input): input = [tableId, partySize, startTime,
\* durationMinutes, status]; returns [success, st]
createReservation(st, input, newId) ==
  LET table == tableById(input.tableId)
      endTime == addMinutes(input.startTime, input.durationMinutes)
      conflict == checkConflict([tableId |-> input.tableId,
                                 startTime |-> input.startTime,
                                 endTime |-> endTime], NULL, st.reservations)
  IN IF table.id # NULL /\ (input.partySize < table.capMin \/ input.partySize > table.capMax)
     THEN [success |-> FALSE, st |-> st]
     ELSE IF input.durationMinutes < 30 \/ input.durationMinutes > 360
     THEN [success |-> FALSE, st |-> st]
     ELSE IF conflict.hasConflict
     THEN [success |-> FALSE, st |-> st]
     ELSE [success |-> TRUE,
           st |-> storeAddReservation(st,
                    [id |-> newId, tableId |-> input.tableId,
                     partySize |-> input.partySize,
                     startTime |-> input.startTime, endTime |-> endTime,
                     durationMinutes |-> input.durationMinutes,
                     status |-> IF input.status = NULL THEN "CONFIRMED" ELSE input.status])]

\* updateReservation(id, input): input is a record holding only the fields
\* that are given (undefined fields are absent); returns [success, st]
updateReservation_staleEnd(st, id, input) ==
  LET existing == getReservationById(id, st.reservations)
      has(f) == f \in DOMAIN input
      tableId == IF has("tableId") THEN input.tableId ELSE existing.tableId
      startTime == IF has("startTime") THEN input.startTime ELSE existing.startTime
      durationMinutes == IF has("durationMinutes") THEN input.durationMinutes
                         ELSE existing.durationMinutes
      partySize == IF has("partySize") THEN input.partySize ELSE existing.partySize
      table == tableById(tableId)
      endTime == addMinutes(startTime, durationMinutes)
      conflict == checkConflict([tableId |-> tableId, startTime |-> startTime,
                                 endTime |-> endTime], id, st.reservations)
      u1 == IF has("partySize") THEN [partySize |-> input.partySize] ELSE <<>>
      u2 == IF has("startTime")
            THEN [startTime |-> startTime, endTime |-> endTime] ELSE <<>>
      u3 == IF has("durationMinutes")
            THEN [durationMinutes |-> durationMinutes] ELSE <<>>
      u4 == IF has("status") THEN [status |-> input.status] ELSE <<>>
      u5 == IF has("tableId") THEN [tableId |-> input.tableId] ELSE <<>>
      updates == u5 @@ u4 @@ u3 @@ u2 @@ u1
  IN IF existing.id = NULL THEN [success |-> FALSE, st |-> st]
     ELSE IF has("partySize") /\ table.id # NULL
             /\ (partySize < table.capMin \/ partySize > table.capMax)
     THEN [success |-> FALSE, st |-> st]
     ELSE IF durationMinutes < 30 \/ durationMinutes > 360
     THEN [success |-> FALSE, st |-> st]
     ELSE IF (has("startTime") \/ has("durationMinutes") \/ has("tableId"))
             /\ conflict.hasConflict
     THEN [success |-> FALSE, st |-> st]
     ELSE [success |-> TRUE, st |-> storeUpdateReservation(st, id, updates)]
updateReservation(st, id, input) ==
  LET existing == getReservationById(id, st.reservations)
      has(f) == f \in DOMAIN input
      tableId == IF has("tableId") THEN input.tableId ELSE existing.tableId
      startTime == IF has("startTime") THEN input.startTime ELSE existing.startTime
      durationMinutes == IF has("durationMinutes") THEN input.durationMinutes
                         ELSE existing.durationMinutes
      partySize == IF has("partySize") THEN input.partySize ELSE existing.partySize
      table == tableById(tableId)
      endTime == addMinutes(startTime, durationMinutes)
      conflict == checkConflict([tableId |-> tableId, startTime |-> startTime,
                                 endTime |-> endTime], id, st.reservations)
      u1 == IF has("partySize") THEN [partySize |-> input.partySize] ELSE <<>>
      u2 == IF has("startTime")
            THEN [startTime |-> startTime, endTime |-> endTime] ELSE <<>>
      u3 == IF has("durationMinutes")
            THEN [durationMinutes |-> durationMinutes,
                  endTime |-> addMinutes(startTime, durationMinutes)] ELSE <<>>
      u4 == IF has("status") THEN [status |-> input.status] ELSE <<>>
      u5 == IF has("tableId") THEN [tableId |-> input.tableId] ELSE <<>>
      updates == u5 @@ u4 @@ u3 @@ u2 @@ u1
  IN IF existing.id = NULL THEN [success |-> FALSE, st |-> st]
     ELSE IF has("partySize") /\ table.id # NULL
             /\ (partySize < table.capMin \/ partySize > table.capMax)
     THEN [success |-> FALSE, st |-> st]
     ELSE IF durationMinutes < 30 \/ durationMinutes > 360
     THEN [success |-> FALSE, st |-> st]
     ELSE IF (has("startTime") \/ has("durationMinutes") \/ has("tableId"))
             /\ conflict.hasConflict
     THEN [success |-> FALSE, st |-> st]
     ELSE [success |-> TRUE, st |-> storeUpdateReservation(st, id, updates)]

\* ------------------------------------------------------------ useDragAndDrop
handleCreateDragStart(ds, tableId, x, zoom) ==
  LET slotIndex == getSlotFromX(x, zoom)
  IN setDragState(ds, [isDragging |-> TRUE, dragType |-> "create", tableId |-> tableId,
                       startSlot |-> slotIndex, endSlot |-> slotIndex + 1,
                       reservationId |-> NULL])

handleCreateDragMove_minOne(ds, x, zoom) ==
  IF ds.dragType # "create" \/ ds.startSlot = NoSlot THEN ds
  ELSE LET currentSlot == getSlotFromX(x, zoom)
           minEndSlot == ds.startSlot + 1
           maxEndSlot == ds.startSlot + 24
       IN setDragState(ds, [endSlot |-> Max(minEndSlot, Min(maxEndSlot, currentSlot))])
handleCreateDragMove(ds, x, zoom) ==
  IF ds.dragType # "create" \/ ds.startSlot = NoSlot THEN ds
  ELSE LET currentSlot == getSlotFromX(x, zoom)
           minEndSlot == ds.startSlot + 2
           maxEndSlot == ds.startSlot + 24
       IN setDragState(ds, [endSlot |-> Max(minEndSlot, Min(maxEndSlot, currentSlot))])

\* the value returned; the session is reset on every path
handleCreateDragEnd_endInclusive(ds) ==
  IF ds.dragType # "create" \/ ds.startSlot = NoSlot \/ ds.endSlot = NoSlot
     \/ ds.tableId = NULL
  THEN NoResult
  ELSE [kind |-> "create", tableId |-> ds.tableId,
        startTime |-> slotIndexToTime(ds.startSlot),
        endTime |-> slotIndexToTime(ds.endSlot),
        durationMinutes |-> slotsToDuration(ds.endSlot - ds.startSlot + 1)]
handleCreateDragEnd_noTableCheck(ds) ==
  IF ds.dragType # "create" \/ ds.startSlot = NoSlot \/ ds.endSlot = NoSlot
  THEN NoResult
  ELSE [kind |-> "create", tableId |-> ds.tableId,
        startTime |-> slotIndexToTime(ds.startSlot),
        endTime |-> slotIndexToTime(ds.endSlot),
        durationMinutes |-> slotsToDuration(ds.endSlot - ds.startSlot)]
handleCreateDragEnd(ds) ==
  IF ds.dragType # "create" \/ ds.startSlot = NoSlot \/ ds.endSlot = NoSlot
     \/ ds.tableId = NULL
  THEN NoResult
  ELSE [kind |-> "create", tableId |-> ds.tableId,
        startTime |-> slotIndexToTime(ds.startSlot),
        endTime |-> slotIndexToTime(ds.endSlot),
        durationMinutes |-> slotsToDuration(ds.endSlot - ds.startSlot)]

handleMoveDragStart(ds, resList, reservationId, tableId, x, zoom) ==
  IF getReservationById(reservationId, resList).id = NULL THEN ds
  ELSE LET slotIndex == getSlotFromX(x, zoom)
       IN setDragState(ds, [isDragging |-> TRUE, dragType |-> "move", tableId |-> tableId,
                            startSlot |-> slotIndex, endSlot |-> slotIndex,
                            reservationId |-> reservationId])

handleMoveDragMove(ds, x, y, collapsed, zoom) ==
  IF ds.dragType # "move" THEN ds
  ELSE LET currentSlot == getSlotFromX(x, zoom)
           newTableId == getTableIdByY(y, collapsed, zoom)
       IN setDragState(ds, [endSlot |-> currentSlot,
                            tableId |-> IF newTableId # NULL THEN newTableId
                                        ELSE ds.tableId])

handleMoveDragEnd_absolute(ds, resList) ==
  LET reservation == getReservationById(ds.reservationId, resList)
  IN IF ds.dragType # "move" \/ ds.reservationId = NULL \/ ds.startSlot = NoSlot
        \/ ds.endSlot = NoSlot \/ ds.tableId = NULL
     THEN NoResult
     ELSE IF reservation.id = NULL THEN NoResult
     ELSE LET newStartSlot == clampSlotIndex(ds.endSlot)
              newStartTime == slotIndexToTime(newStartSlot)
          IN [kind |-> "move", reservationId |-> ds.reservationId,
              newTableId |-> ds.tableId, newStartTime |-> newStartTime,
              newEndTime |-> addMinutes(newStartTime, reservation.durationMinutes)]
handleMoveDragEnd_clampedEnd(ds, resList) ==
  LET reservation == getReservationById(ds.reservationId, resList)
  IN IF ds.dragType # "move" \/ ds.reservationId = NULL \/ ds.startSlot = NoSlot
        \/ ds.endSlot = NoSlot \/ ds.tableId = NULL
     THEN NoResult
     ELSE IF reservation.id = NULL THEN NoResult
     ELSE LET slotDiff == ds.endSlot - ds.startSlot
              originalStartSlot == timeToSlotIndex(reservation.startTime)
              newStartSlot == clampSlotIndex(originalStartSlot + slotDiff)
              newEndSlot == clampSlotIndex(newStartSlot
                                           + durationToSlots(reservation.durationMinutes))
          IN [kind |-> "move", reservationId |-> ds.reservationId,
              newTableId |-> ds.tableId,
              newStartTime |-> slotIndexToTime(newStartSlot),
              newEndTime |-> slotIndexToTime(newEndSlot)]
handleMoveDragEnd(ds, resList) ==
  LET reservation == getReservationById(ds.reservationId, resList)
  IN IF ds.dragType # "move" \/ ds.reservationId = NULL \/ ds.startSlot = NoSlot
        \/ ds.endSlot = NoSlot \/ ds.tableId = NULL
     THEN NoResult
     ELSE IF reservation.id = NULL THEN NoResult
     ELSE LET slotDiff == ds.endSlot - ds.startSlot
              originalStartSlot == timeToSlotIndex(reservation.startTime)
              newStartSlot == clampSlotIndex(originalStartSlot + slotDiff)
              newStartTime == slotIndexToTime(newStartSlot)
              newEndTime == addMinutes(newStartTime, reservation.durationMinutes)
          IN [kind |-> "move", reservationId |-> ds.reservationId,
              newTableId |-> ds.tableId, newStartTime |-> newStartTime,
              newEndTime |-> newEndTime]

handleResizeDragStart(ds, reservationId, edge, x, zoom) ==
  LET slotIndex == getSlotFromX(x, zoom)
  IN setDragState(ds, [isDragging |-> TRUE,
                       dragType |-> IF edge = "start" THEN "resize-start" ELSE "resize-end",
                       reservationId |-> reservationId, startSlot |-> slotIndex,
                       endSlot |-> slotIndex, tableId |-> NULL])

handleResizeDragMove(ds, x, zoom) ==
  IF ds.dragType # "resize-start" /\ ds.dragType # "resize-end" THEN ds
  ELSE setDragState(ds, [endSlot |-> getSlotFromX(x, zoom)])

handleResizeDragEnd_noMinimum(ds, resList) ==
  LET reservation == getReservationById(ds.reservationId, resList)
  IN IF (ds.dragType # "resize-start" /\ ds.dragType # "resize-end")
        \/ ds.reservationId = NULL \/ ds.startSlot = NoSlot \/ ds.endSlot = NoSlot
     THEN NoResult
     ELSE IF reservation.id = NULL THEN NoResult
     ELSE LET slotDiff == ds.endSlot - ds.startSlot
          IN IF ds.dragType = "resize-end"
             THEN LET d == Min(MAX_DURATION, reservation.durationMinutes + slotDiff * 15)
                  IN [kind |-> "resize", reservationId |-> ds.reservationId,
                      newStartTime |-> reservation.startTime,
                      newEndTime |-> addMinutes(reservation.startTime, d),
                      newDurationMinutes |-> d]
             ELSE LET d == Min(MAX_DURATION, reservation.durationMinutes - slotDiff * 15)
                  IN [kind |-> "resize", reservationId |-> ds.reservationId,
                      newStartTime |-> addMinutes(reservation.endTime, -d),
                      newEndTime |-> reservation.endTime,
                      newDurationMinutes |-> d]
handleResizeDragEnd_startShifted(ds, resList) ==
  LET reservation == getReservationById(ds.reservationId, resList)
  IN IF (ds.dragType # "resize-start" /\ ds.dragType # "resize-end")
        \/ ds.reservationId = NULL \/ ds.startSlot = NoSlot \/ ds.endSlot = NoSlot
     THEN NoResult
     ELSE IF reservation.id = NULL THEN NoResult
     ELSE LET slotDiff == ds.endSlot - ds.startSlot
          IN IF ds.dragType = "resize-end"
             THEN LET d == Max(MIN_DURATION,
                               Min(MAX_DURATION, reservation.durationMinutes + slotDiff * 15))
                  IN [kind |-> "resize", reservationId |-> ds.reservationId,
                      newStartTime |-> reservation.startTime,
                      newEndTime |-> addMinutes(reservation.startTime, d),
                      newDurationMinutes |-> d]
             ELSE LET d == Max(MIN_DURATION,
                               Min(MAX_DURATION, reservation.durationMinutes - slotDiff * 15))
                      s == addMinutes(reservation.startTime, slotDiff * 15)
                  IN [kind |-> "resize", reservationId |-> ds.reservationId,
                      newStartTime |-> s,
                      newEndTime |-> addMinutes(s, d),
                      newDurationMinutes |-> d]
handleResizeDragEnd(ds, resList) ==
  LET reservation == getReservationById(ds.reservationId, resList)
  IN IF (ds.dragType # "resize-start" /\ ds.dragType # "resize-end")
        \/ ds.reservationId = NULL \/ ds.startSlot = NoSlot \/ ds.endSlot = NoSlot
     THEN NoResult
     ELSE IF reservation.id = NULL THEN NoResult
     ELSE LET slotDiff == ds.endSlot - ds.startSlot
          IN IF ds.dragType = "resize-end"
             THEN LET d == Max(MIN_DURATION,
                               Min(MAX_DURATION, reservation.durationMinutes + slotDiff * 15))
                  IN [kind |-> "resize", reservationId |-> ds.reservationId,
                      newStartTime |-> reservation.startTime,
                      newEndTime |-> addMinutes(reservation.startTime, d),
                      newDurationMinutes |-> d]
             ELSE LET d == Max(MIN_DURATION,
                               Min(MAX_DURATION, reservation.durationMinutes - slotDiff * 15))
                  IN [kind |-> "resize", reservationId |-> ds.reservationId,
                      newStartTime |-> addMinutes(reservation.endTime, -d),
                      newEndTime |-> reservation.endTime,
                      newDurationMinutes |-> d]

\* useDragAndDrop.cancelDrag
cancelDrag(ds) == resetDragState(ds)

\* useDragAndDrop.hasConflict: the live conflict flag of the current render
hasConflict(ds, resList) ==
  IF ~ds.isDragging \/ ds.startSlot = NoSlot \/ ds.endSlot = NoSlot THEN FALSE
  ELSE IF ds.dragType = "create" /\ ds.tableId # NULL
  THEN checkConflict([tableId |-> ds.tableId,
                      startTime |-> slotIndexToTime(ds.startSlot),
                      endTime |-> slotIndexToTime(ds.endSlot)], NULL, resList).hasConflict
  ELSE IF ds.dragType = "move" /\ ds.reservationId # NULL /\ ds.tableId # NULL
  THEN LET reservation == getReservationById(ds.reservationId, resList)
           slotDiff == ds.endSlot - ds.startSlot
           originalStartSlot == timeToSlotIndex(reservation.startTime)
           newStartSlot == clampSlotIndex(originalStartSlot + slotDiff)
           newStartTime == slotIndexToTime(newStartSlot)
           newEndTime == addMinutes(newStartTime, reservation.durationMinutes)
       IN IF reservation.id = NULL THEN FALSE
          ELSE checkConflict([tableId |-> ds.tableId, startTime |-> newStartTime,
                              endTime |-> newEndTime],
                             ds.reservationId, resList).hasConflict
  ELSE IF (ds.dragType = "resize-start" \/ ds.dragType = "resize-end")
          /\ ds.reservationId # NULL
  THEN LET reservation == getReservationById(ds.reservationId, resList)
           slotDiff == ds.endSlot - ds.startSlot
           originalStartSlot == timeToSlotIndex(reservation.startTime)
           originalDurationSlots == CeilDiv(reservation.durationMinutes, 15)
           newDurationSlots ==
             IF ds.dragType = "resize-end"
             THEN Max(2, Min(24, originalDurationSlots + slotDiff))
             ELSE Max(2, Min(24, originalDurationSlots - slotDiff))
           newStartSlot ==
             IF ds.dragType = "resize-end" THEN originalStartSlot
             ELSE originalStartSlot + (originalDurationSlots - newDurationSlots)
           newStartTime == slotIndexToTime(newStartSlot)
           newEndTime == addMinutes(newStartTime, newDurationSlots * 15)
       IN IF reservation.id = NULL THEN FALSE
          ELSE checkConflict([tableId |-> reservation.tableId, startTime |-> newStartTime,
                              endTime |-> newEndTime],
                             ds.reservationId, resList).hasConflict
  ELSE FALSE

\* the interval [tableId, startTime, endTime] useDragAndDrop.hasConflict hands
\* to checkConflict for session ds whose subject is reservation, or NoResult
\* when it checks nothing
hasConflictInterval(ds, reservation) ==
  IF ~ds.isDragging \/ ds.startSlot = NoSlot \/ ds.endSlot = NoSlot THEN NoResult
  ELSE IF ds.dragType = "create" /\ ds.tableId # NULL
  THEN [tableId |-> ds.tableId, startTime |-> slotIndexToTime(ds.startSlot),
        endTime |-> slotIndexToTime(ds.endSlot)]
  ELSE IF ds.dragType = "move" /\ ds.reservationId # NULL /\ ds.tableId # NULL
  THEN IF reservation.id = NULL THEN NoResult
       ELSE LET newStartSlot == clampSlotIndex(timeToSlotIndex(reservation.startTime)
                                               + (ds.endSlot - ds.startSlot))
                newStartTime == slotIndexToTime(newStartSlot)
            IN [tableId |-> ds.tableId, startTime |-> newStartTime,
                endTime |-> addMinutes(newStartTime, reservation.durationMinutes)]
  ELSE IF (ds.dragType = "resize-start" \/ ds.dragType = "resize-end")
          /\ ds.reservationId # NULL
  THEN IF reservation.id = NULL THEN NoResult
       ELSE LET slotDiff == ds.endSlot - ds.startSlot
                originalStartSlot == timeToSlotIndex(reservation.startTime)
                originalDurationSlots == CeilDiv(reservation.durationMinutes, 15)
                newDurationSlots ==
                  IF ds.dragType = "resize-end"
                  THEN Max(2, Min(24, originalDurationSlots + slotDiff))
                  ELSE Max(2, Min(24, originalDurationSlots - slotDiff))
                newStartSlot ==
                  IF ds.dragType = "resize-end" THEN originalStartSlot
                  ELSE originalStartSlot + (originalDurationSlots - newDurationSlots)
                newStartTime == slotIndexToTime(newStartSlot)
            IN [tableId |-> reservation.tableId, startTime |-> newStartTime,
                endTime |-> addMinutes(newStartTime, newDurationSlots * 15)]
  ELSE NoResult

\* the slot indices useDragAndDrop.hasConflict passes to slotIndexToTime for
\* the session of the current render
hasConflictSlots(ds, resList) ==
  IF ~ds.isDragging \/ ds.startSlot = NoSlot \/ ds.endSlot = NoSlot THEN {}
  ELSE IF ds.dragType = "create" /\ ds.tableId # NULL
  THEN {ds.startSlot, ds.endSlot}
  ELSE IF ds.dragType = "move" /\ ds.reservationId # NULL /\ ds.tableId # NULL
  THEN LET reservation == getReservationById(ds.reservationId, resList)
       IN IF reservation.id = NULL THEN {}
          ELSE {clampSlotIndex(timeToSlotIndex(reservation.startTime)
                               + (ds.endSlot - ds.startSlot))}
  ELSE IF (ds.dragType = "resize-start" \/ ds.dragType = "resize-end")
          /\ ds.reservationId # NULL
  THEN LET reservation == getReservationById(ds.reservationId, resList)
           slotDiff == ds.endSlot - ds.startSlot
           originalStartSlot == timeToSlotIndex(reservation.startTime)
           originalDurationSlots == CeilDiv(reservation.durationMinutes, 15)
           newDurationSlots ==
             IF ds.dragType = "resize-end"
             THEN Max(2, Min(24, originalDurationSlots + slotDiff))
             ELSE Max(2, Min(24, originalDurationSlots - slotDiff))
       IN IF reservation.id = NULL THEN {}
          ELSE IF ds.dragType = "resize-end" THEN {originalStartSlot}
          ELSE {originalStartSlot + (originalDurationSlots - newDurationSlots)}
  ELSE {}

\* the slot indices the drag-end handler of the session's type passes to
\* slotIndexToTime (handleResizeDragEnd converts none)
dragEndSlots(ds, resList) ==
  IF ds.dragType = "create"
  THEN IF ds.startSlot = NoSlot \/ ds.endSlot = NoSlot \/ ds.tableId = NULL THEN {}
       ELSE {ds.startSlot, ds.endSlot}
  ELSE IF ds.dragType = "move"
  THEN LET reservation == getReservationById(ds.reservationId, resList)
       IN IF ds.reservationId = NULL \/ ds.startSlot = NoSlot \/ ds.endSlot = NoSlot
             \/ ds.tableId = NULL \/ reservation.id = NULL
          THEN {}
          ELSE {clampSlotIndex(timeToSlotIndex(reservation.startTime)
                               + (ds.endSlot - ds.startSlot))}
  ELSE {}

\* ------------------------------------------------------------------ inputs
\* pointer positions relative to the grid's top-left corner (pixels)
PointerXs == {-40, 130, 500, 3200}
PointerYs == {50, 100, 220}

\* pointer offsets inside a rendered block of the given width: left edge,
\* body, right edge
BlockRelXs(width) == {0, width \div 2, width - 1}

\* zoom levels the toolbar may have set before the gesture (of ZOOM_LEVELS)
InitialZoomLevels == {50, 100}

\* values the create form may submit
FormPartySizes == {2, 5}
FormDurations == {90}
FormStartTimes == {750}

\* ids of created reservations (RES_<Date.now()>: fresh)
NewIds == <<"n1", "n2", "n3", "n4">>

\* reservation lists the store may hold when the timeline is first used:
\* no two active reservations overlap on a table
InitialReservation1 ==
  {[id |-> "r1", tableId |-> "T1", partySize |-> 2, startTime |-> s,
    endTime |-> s + 60, durationMinutes |-> 60, status |-> "CONFIRMED"] :
     s \in {720, 727}}
InitialReservation2 ==
  {[id |-> "r2", tableId |-> t, partySize |-> 2, startTime |-> s,
    endTime |-> s + d, durationMinutes |-> d, status |-> st] :
     t \in {"T1", "T2"}, s \in {780}, d \in {60},
     st \in {"SEATED", "CANCELLED"}}

ActiveOverlap(a, b) ==
  /\ a.id # b.id
  /\ a.tableId = b.tableId
  /\ a.status # "CANCELLED" /\ b.status # "CANCELLED"
  /\ a.startTime < b.endTime /\ b.startTime < a.endTime

NoDoubleBooking(resList) ==
  \A i, j \in 1..Len(resList) : ~ActiveOverlap(resList[i], resList[j])

InitialLists ==
  {l \in {<<a, b>> : a \in InitialReservation1, b \in InitialReservation2} :
     NoDoubleBooking(l)}

\* drag sessions placed directly in the store (store.setDragState), as the
\* hook's unit tests do
HookSessions ==
  {[isDragging |-> TRUE, dragType |-> "create", startSlot |-> s, endSlot |-> e,
    tableId |-> "T1", reservationId |-> NULL] : s \in {10, 48}, e \in {11, 52}}
  \cup
  {[isDragging |-> TRUE, dragType |-> "move", startSlot |-> 0, endSlot |-> 51,
    tableId |-> "T3", reservationId |-> "r2"]}
  \cup
  \* sessions with missing fields or a subject that is not in the store
  {[isDragging |-> TRUE, dragType |-> "create", startSlot |-> NoSlot,
    endSlot |-> NoSlot, tableId |-> NULL, reservationId |-> NULL],
   [isDragging |-> TRUE, dragType |-> "create", startSlot |-> 10,
    endSlot |-> 14, tableId |-> NULL, reservationId |-> NULL],
   [isDragging |-> TRUE, dragType |-> "move", startSlot |-> 4,
    endSlot |-> 8, tableId |-> "T2", reservationId |-> "gone"],
   [isDragging |-> TRUE, dragType |-> "move", startSlot |-> 4,
    endSlot |-> 8, tableId |-> NULL, reservationId |-> "r1"],
   [isDragging |-> TRUE, dragType |-> "move", startSlot |-> 4,
    endSlot |-> NoSlot, tableId |-> "T2", reservationId |-> "r1"],
   [isDragging |-> TRUE, dragType |-> "resize-end", startSlot |-> 8,
    endSlot |-> 12, tableId |-> NULL, reservationId |-> NULL],
   [isDragging |-> TRUE, dragType |-> "resize-start", startSlot |-> 8,
    endSlot |-> 6, tableId |-> NULL, reservationId |-> "gone"]}

\* ------------------------------------------------------- scroll throttling
\* scroll positions are records [left, top] in pixels
ScrollOrigin == [left |-> 0, top |-> 0]
NoPending == [left |-> -1, top |-> -1]
NoTwin == [viewport |-> NULL]
Abs(n) == IF n < 0 THEN -n ELSE n

\* The refs and state of Timeline (dom: the scroll container's scrollLeft /
\* scrollTop; lastScroll: lastScrollRef; rafRef: a frame callback is
\* requested; viewport: the scroll part of the viewport state) and of
\* useVirtualization (pendingScroll: pendingScrollRef; vRafRef: its rafRef;
\* scrollState), with what happened since the last animation frame: the
\* number of scroll events, the number of frame callbacks each handler
\* requested, and whether some event was beyond the threshold.
initialScroll ==
  [dom |-> ScrollOrigin, lastScroll |-> ScrollOrigin, rafRef |-> FALSE,
   viewport |-> ScrollOrigin,
   pendingScroll |-> NoPending, vRafRef |-> FALSE, scrollState |-> ScrollOrigin,
   events |-> 0, callbacks |-> 0, vCallbacks |-> 0, exceeded |-> FALSE]

\* Timeline.handleScroll: deltaX > scrollThreshold || deltaY > scrollThreshold
movedBeyondThreshold(pos, lastPos) ==
  \/ Abs(pos.left - lastPos.left) > SCROLL_THRESHOLD
  \/ Abs(pos.top - lastPos.top) > SCROLL_THRESHOLD

Timeline_handleScroll_tracksEveryEvent(sc) ==
  IF movedBeyondThreshold(sc.dom, sc.lastScroll) /\ ~sc.rafRef
  THEN [sc EXCEPT !.rafRef = TRUE, !.callbacks = @ + 1]
  ELSE [sc EXCEPT !.lastScroll = sc.dom]
Timeline_handleScroll_inclusiveThreshold(sc) ==
  IF /\ \/ Abs(sc.dom.left - sc.lastScroll.left) >= SCROLL_THRESHOLD
        \/ Abs(sc.dom.top - sc.lastScroll.top) >= SCROLL_THRESHOLD
     /\ ~sc.rafRef
  THEN [sc EXCEPT !.rafRef = TRUE, !.callbacks = @ + 1]
  ELSE sc
\* Timeline.handleScroll: reads the container's position and requests a
\* frame callback when it is beyond the threshold and none is requested
Timeline_handleScroll(sc) ==
  IF movedBeyondThreshold(sc.dom, sc.lastScroll) /\ ~sc.rafRef
  THEN [sc EXCEPT !.rafRef = TRUE, !.callbacks = @ + 1]
  ELSE sc

\* the frame callback of Timeline.handleScroll: reads the container's
\* position again
Timeline_frameCallback(sc) ==
  [sc EXCEPT !.lastScroll = sc.dom, !.viewport = sc.dom, !.rafRef = FALSE]

useVirtualization_handleScroll_keepsFirst(sc, scrollLeft, scrollTop) ==
  IF ~sc.vRafRef
  THEN [sc EXCEPT !.pendingScroll = [left |-> scrollLeft, top |-> scrollTop],
                  !.vRafRef = TRUE, !.vCallbacks = @ + 1]
  ELSE sc
\* useVirtualization.handleScroll(scrollLeft, scrollTop)
useVirtualization_handleScroll(sc, scrollLeft, scrollTop) ==
  LET p == [sc EXCEPT !.pendingScroll = [left |-> scrollLeft, top |-> scrollTop]]
  IN IF ~p.vRafRef
     THEN [p EXCEPT !.vRafRef = TRUE, !.vCallbacks = @ + 1]
     ELSE p

\* the frame callback of useVirtualization.handleScroll
useVirtualization_frameCallback(sc) ==
  [sc EXCEPT !.scrollState = IF sc.pendingScroll # NoPending
                             THEN sc.pendingScroll ELSE @,
             !.vRafRef = FALSE]

\* --------------------------------------------------------------- behaviour
store == [reservations |-> reservations, past |-> past, future |-> future]

Observe(event, ds, hc, result) ==
  [event |-> event, drag |-> ds,
   subject |-> getReservationById(ds.reservationId, reservations),
   conflict |-> hc, result |-> result]

Quiet(event) == Observe(event, initialDragState, FALSE, NoResult)

InitCommon ==
  /\ reservations \in InitialLists
  /\ past = <<>>
  /\ future = <<>>
  /\ zoomLevel \in InitialZoomLevels
  /\ collapsedSectors = {}
  /\ sheetOpen = FALSE
  /\ sheetData = NoResult
  /\ created = 0
  /\ last = Quiet("none")
  /\ scroll = initialScroll

Init == InitCommon /\ dragState = initialDragState /\ gestures = 0 /\ twin = NoTwin

\* the store is idle, or holds a session placed by setDragState (which counts
\* as a started gesture)
InitHook ==
  /\ InitCommon
  /\ twin = NoTwin
  /\ \/ dragState = initialDragState /\ gestures = 0
     \/ dragState \in HookSessions /\ gestures = 1

\* the pointer is already held down on the grid: the store holds the create
\* session that TimelineGrid.handleMouseDown started on the row of T2, and
\* the pointer-downs that follow arrive while it is active
InitPressed ==
  /\ InitCommon
  /\ twin = NoTwin
  /\ dragState = handleCreateDragStart(initialDragState, "T2", 500, zoomLevel)
  /\ gestures = 0

\* TimelineGrid.handleMouseDown
GridMouseDown ==
  \E x \in PointerXs, y \in PointerYs :
    LET tableId == getTableIdByY(y, collapsedSectors, zoomLevel)
    IN /\ gestures < MaxGestures
       /\ tableId # NULL
       /\ dragState' = handleCreateDragStart(dragState, tableId, x, zoomLevel)
       /\ gestures' = gestures + 1
       /\ last' = Quiet("down")
       /\ UNCHANGED <<twin, scroll, reservations, past, future, zoomLevel, collapsedSectors,
                      sheetOpen, sheetData, created>>

\* ReservationBlock.handleMouseDown on the rendered block of reservations[i]
BlockMouseDown ==
  \E i \in 1..Len(reservations) :
    LET reservation == reservations[i]
        slotWidth == getSlotWidth(zoomLevel)
        left == timeToSlotIndex(reservation.startTime) * slotWidth
        width == Max(durationToSlots(reservation.durationMinutes) * slotWidth,
                     MIN_BLOCK_WIDTH)
    IN \E relativeX \in BlockRelXs(width) :
         /\ gestures < MaxGestures
         /\ isTableRendered(reservation.tableId, collapsedSectors)
         /\ dragState' =
              IF relativeX < EDGE_MARGIN
              THEN handleResizeDragStart(dragState, reservation.id, "start",
                                         left + relativeX, zoomLevel)
              ELSE IF relativeX > width - EDGE_MARGIN
              THEN handleResizeDragStart(dragState, reservation.id, "end",
                                         left + relativeX, zoomLevel)
              ELSE handleMoveDragStart(dragState, reservations, reservation.id,
                                       reservation.tableId, left + relativeX, zoomLevel)
         /\ gestures' = gestures + 1
         /\ last' = Quiet("down")
         /\ UNCHANGED <<twin, scroll, reservations, past, future, zoomLevel, collapsedSectors,
                        sheetOpen, sheetData, created>>

\* TimelineGrid.handleMouseMove
MouseMove_savesHistory ==
  \E x \in PointerXs, y \in PointerYs :
    /\ dragState.isDragging
    /\ dragState' =
         CASE dragState.dragType = "create" ->
                handleCreateDragMove(dragState, x, zoomLevel)
           [] dragState.dragType = "move" ->
                handleMoveDragMove(dragState, x, y, collapsedSectors, zoomLevel)
           [] dragState.dragType \in {"resize-start", "resize-end"} ->
                handleResizeDragMove(dragState, x, zoomLevel)
           [] OTHER -> dragState
    /\ past' = saveToHistory(past, reservations)
    /\ future' = <<>>
    /\ last' = Quiet("move")
    /\ UNCHANGED <<twin, scroll, reservations, zoomLevel, collapsedSectors,
                   sheetOpen, sheetData, created, gestures>>
MouseMove ==
  \E x \in PointerXs, y \in PointerYs :
    /\ dragState.isDragging
    /\ dragState' =
         CASE dragState.dragType = "create" ->
                handleCreateDragMove(dragState, x, zoomLevel)
           [] dragState.dragType = "move" ->
                handleMoveDragMove(dragState, x, y, collapsedSectors, zoomLevel)
           [] dragState.dragType \in {"resize-start", "resize-end"} ->
                handleResizeDragMove(dragState, x, zoomLevel)
           [] OTHER -> dragState
    /\ last' = Quiet("move")
    /\ UNCHANGED <<twin, scroll, reservations, past, future, zoomLevel, collapsedSectors,
                   sheetOpen, sheetData, created, gestures>>

\* TimelineGrid.handleMouseUp, the switch over the drag type (lines 292-322)
MouseUpCommit(conflict) ==
  LET result ==
        CASE dragState.dragType = "create" -> handleCreateDragEnd(dragState)
          [] dragState.dragType = "move" -> handleMoveDragEnd(dragState, reservations)
          [] dragState.dragType \in {"resize-start", "resize-end"} ->
               handleResizeDragEnd(dragState, reservations)
          [] OTHER -> NoResult
      emitted ==
        IF result.kind = "create" /\ result.durationMinutes < 30 THEN NoResult
        ELSE result
      outcome ==
        CASE emitted.kind = "move" ->
               updateReservation(store, emitted.reservationId,
                                 [tableId |-> emitted.newTableId,
                                  startTime |-> emitted.newStartTime])
          [] emitted.kind = "resize" ->
               updateReservation(store, emitted.reservationId,
                                 [startTime |-> emitted.newStartTime,
                                  durationMinutes |-> emitted.newDurationMinutes])
          [] OTHER -> [success |-> FALSE, st |-> store]
  IN /\ dragState' = IF dragState.dragType = NULL THEN dragState
                     ELSE resetDragState(dragState)
     /\ reservations' = outcome.st.reservations
     /\ past' = outcome.st.past
     /\ future' = outcome.st.future
     /\ sheetData' = IF emitted.kind = "create" THEN emitted ELSE sheetData
     /\ sheetOpen' = IF emitted.kind = "create" THEN TRUE ELSE sheetOpen
     /\ last' = Observe("up", dragState, conflict, emitted)
     /\ UNCHANGED <<twin, scroll, zoomLevel, collapsedSectors, created, gestures>>

\* TimelineGrid.handleMouseUp given the live conflict flag of the render
handleMouseUp_noConflictGuard(conflict) ==
  /\ dragState.isDragging
  /\ MouseUpCommit(conflict)
handleMouseUp(conflict) ==
  /\ dragState.isDragging
  /\ IF conflict
     THEN /\ dragState' = cancelDrag(dragState)
          /\ last' = Observe("up", dragState, conflict, NoResult)
          /\ UNCHANGED <<twin, scroll, reservations, past, future, zoomLevel, collapsedSectors,
                         sheetOpen, sheetData, created, gestures>>
     ELSE MouseUpCommit(conflict)

MouseUp == handleMouseUp(hasConflict(dragState, reservations))

\* TimelineGrid.handleMouseLeave
MouseLeave ==
  /\ dragState.isDragging
  /\ dragState' = cancelDrag(dragState)
  /\ last' = Observe("leave", dragState, hasConflict(dragState, reservations), NoResult)
  /\ UNCHANGED <<twin, scroll, reservations, past, future, zoomLevel, collapsedSectors,
                 sheetOpen, sheetData, created, gestures>>

\* a direct call of the hook's cancelDrag
CancelDrag ==
  /\ dragState' = cancelDrag(dragState)
  /\ last' = Observe("cancel", dragState, hasConflict(dragState, reservations), NoResult)
  /\ UNCHANGED <<twin, scroll, reservations, past, future, zoomLevel, collapsedSectors,
                 sheetOpen, sheetData, created, gestures>>

\* TimelineGrid.handleCreateReservation: the create sheet is submitted
SubmitSheet ==
  /\ sheetData.kind = "create"
  /\ created < MaxCreated
  /\ \E partySize \in FormPartySizes,
        durationMinutes \in FormDurations \cup {sheetData.durationMinutes},
        startOverride \in FormStartTimes \cup {NoSlot} :
       LET startTime == IF startOverride # NoSlot THEN startOverride
                        ELSE sheetData.startTime
           outcome == createReservation(store,
                        [tableId |-> sheetData.tableId, partySize |-> partySize,
                         startTime |-> startTime, durationMinutes |-> durationMinutes,
                         status |-> "CONFIRMED"],
                        NewIds[created + 1])
       IN /\ reservations' = outcome.st.reservations
          /\ past' = outcome.st.past
          /\ future' = outcome.st.future
          /\ sheetOpen' = IF outcome.success THEN FALSE ELSE sheetOpen
          /\ sheetData' = IF outcome.success THEN NoResult ELSE sheetData
          /\ created' = IF outcome.success THEN created + 1 ELSE created
          /\ last' = Quiet("submit")
  /\ UNCHANGED <<twin, scroll, dragState, zoomLevel, collapsedSectors, gestures>>

\* the create sheet is dismissed (onOpenChange(false))
CloseSheet ==
  /\ sheetOpen
  /\ sheetOpen' = FALSE
  /\ sheetData' = NoResult
  /\ last' = Quiet("close")
  /\ UNCHANGED <<twin, scroll, reservations, past, future, dragState, zoomLevel, collapsedSectors,
                 created, gestures>>

Next ==
  \/ GridMouseDown
  \/ BlockMouseDown
  \/ MouseMove
  \/ MouseUp
  \/ MouseLeave
  \/ CancelDrag
  \/ SubmitSheet
  \/ CloseSheet

Spec == Init /\ [][Next]_vars

SpecHook == InitHook /\ [][Next]_vars

SpecPressed == InitPressed /\ [][Next]_vars

\* ------------------------------------------- direct calls of the detector
\* reservation lists handed to the conflict detector: up to three entries,
\* overlapping ones and CANCELLED ones included
DetectorReservationA ==
  {[id |-> "a", tableId |-> "T1", partySize |-> 2, startTime |-> s,
    endTime |-> s + 60, durationMinutes |-> 60, status |-> st] :
     s \in {720, 780}, st \in {"CONFIRMED", "CANCELLED"}}
DetectorReservationB ==
  {[id |-> "b", tableId |-> t, partySize |-> 2, startTime |-> s,
    endTime |-> s + 60, durationMinutes |-> 60, status |-> st] :
     t \in {"T1", "T2"}, s \in {750}, st \in {"SEATED", "CANCELLED"}}
DetectorReservationC ==
  {[id |-> "c", tableId |-> "T1", partySize |-> 2, startTime |-> 840,
    endTime |-> 900, durationMinutes |-> 60, status |-> "CONFIRMED"],
   [id |-> "c", tableId |-> "T1", partySize |-> 2, startTime |-> 720,
    endTime |-> 900, durationMinutes |-> 180, status |-> "PENDING"]}
DetectorLists ==
  {<<>>} \cup {<<a>> : a \in DetectorReservationA}
  \cup {<<a, b>> : a \in DetectorReservationA, b \in DetectorReservationB}
  \cup {<<a, b, c>> : a \in DetectorReservationA, b \in DetectorReservationB,
                      c \in DetectorReservationC}

\* proposed intervals and excluded ids of a checkConflict call
ProposedIntervals ==
  {[tableId |-> t, startTime |-> s, endTime |-> s + d] :
     t \in {"T1", "T2"}, s \in {720, 750, 840}, d \in {60, 120}}
ExcludeIds == {NULL, "a", "b"}

\* two active reservations on one table, each checked against the other
PairReservations ==
  {[id |-> "p", tableId |-> "T1", partySize |-> 2, startTime |-> s,
    endTime |-> s + d, durationMinutes |-> d, status |-> "CONFIRMED"] :
     s \in {720, 750, 780}, d \in {30, 60}}

\* table lists handed to findAlternativeTables: three of these four, in any
\* order
AlternativeTablePool ==
  {[id |-> "t4", capMin |-> 2, capMax |-> 4],
   [id |-> "t6", capMin |-> 2, capMax |-> 6],
   [id |-> "u6", capMin |-> 5, capMax |-> 6],
   [id |-> "t10", capMin |-> 4, capMax |-> 10]}
AlternativeTableLists ==
  {<<x, y, z>> : x, y, z \in AlternativeTablePool} \ 
  {l \in {<<x, y, z>> : x, y, z \in AlternativeTablePool} :
     l[1] = l[2] \/ l[1] = l[3] \/ l[2] = l[3]}
AlternativePartySizes == {1, 4, 5}
AlternativeExcludeIds == {NULL, "t4"}

InitDetector ==
  /\ reservations \in DetectorLists
  /\ past = <<>>
  /\ future = <<>>
  /\ dragState = initialDragState
  /\ zoomLevel = 100
  /\ collapsedSectors = {}
  /\ sheetOpen = FALSE
  /\ sheetData = NoResult
  /\ created = 0
  /\ gestures = 0
  /\ last = Quiet("none")
  /\ scroll = initialScroll
  /\ twin = NoTwin

\* useConflictDetection.checkConflict(reservation, excludeId)
CheckConflictCall ==
  \E proposed \in ProposedIntervals, excludeId \in ExcludeIds :
    /\ last' = [event |-> "checkConflict", proposed |-> proposed,
                excludeId |-> excludeId,
                result |-> checkConflict(proposed, excludeId, reservations)]
    /\ UNCHANGED <<twin, scroll, reservations, past, future, dragState, zoomLevel, collapsedSectors,
                   sheetOpen, sheetData, created, gestures>>

\* checkReservationConflict(a, [b]) and checkReservationConflict(b, [a])
CheckConflictPair ==
  \E a, b \in PairReservations :
    /\ last' = [event |-> "checkConflictPair", a |-> a, b |-> b,
                ab |-> checkReservationConflict(a, <<[b EXCEPT !.id = "q"]>>, NULL),
                ba |-> checkReservationConflict(b, <<a>>, NULL)]
    /\ UNCHANGED <<twin, scroll, reservations, past, future, dragState, zoomLevel, collapsedSectors,
                   sheetOpen, sheetData, created, gestures>>

\* findAlternativeTables(tables, partySize, excludeTableId)
FindAlternativeTablesCall ==
  \E tbls \in AlternativeTableLists, partySize \in AlternativePartySizes,
     excludeTableId \in AlternativeExcludeIds :
    /\ last' = [event |-> "findAlternativeTables", tables |-> tbls,
                partySize |-> partySize, excludeTableId |-> excludeTableId,
                result |-> findAlternativeTables(tbls, partySize, excludeTableId)]
    /\ UNCHANGED <<twin, scroll, reservations, past, future, dragState, zoomLevel, collapsedSectors,
                   sheetOpen, sheetData, created, gestures>>

\* start times and durations handed to findAlternativeTimeSlots
AlternativeSlotStarts == {720, 765, 840}
AlternativeSlotDurations == {30, 60}

\* findAlternativeTimeSlots(tableId, startTime, durationMinutes, reservations)
FindAlternativeTimeSlotsCall ==
  \E tableId \in {"T1", "T2"}, startTime \in AlternativeSlotStarts,
     durationMinutes \in AlternativeSlotDurations :
    /\ last' = [event |-> "findAlternativeTimeSlots", tableId |-> tableId,
                startTime |-> startTime, durationMinutes |-> durationMinutes,
                result |-> findAlternativeTimeSlots(tableId, startTime,
                                                    durationMinutes, reservations)]
    /\ UNCHANGED <<twin, scroll, reservations, past, future, dragState, zoomLevel, collapsedSectors,
                   sheetOpen, sheetData, created, gestures>>

NextDetector ==
  \/ CheckConflictCall
  \/ CheckConflictPair
  \/ FindAlternativeTablesCall
  \/ FindAlternativeTimeSlotsCall

SpecDetector == InitDetector /\ [][NextDetector]_vars

\* ------------------------------------ direct calls of the slot transforms
\* times of the reference day and the hour after it, every five minutes
\* (slot-aligned and not), and slot indices around the window
TransformTimes == {5 * k : k \in 0..300}
TransformSlots == -60..120

InitTransforms ==
  /\ reservations = <<>>
  /\ past = <<>>
  /\ future = <<>>
  /\ dragState = initialDragState
  /\ zoomLevel = 100
  /\ collapsedSectors = {}
  /\ sheetOpen = FALSE
  /\ sheetData = NoResult
  /\ created = 0
  /\ gestures = 0
  /\ last = Quiet("none")
  /\ scroll = initialScroll
  /\ twin = NoTwin

\* slotIndexToTime(timeToSlotIndex(time, date), date)
TimeToSlotIndexCall ==
  \E time \in TransformTimes :
    /\ last' = [event |-> "timeToSlotIndex", time |-> time,
                slot |-> timeToSlotIndex(time),
                back |-> slotIndexToTime(timeToSlotIndex(time))]
    /\ UNCHANGED <<twin, scroll, reservations, past, future, dragState, zoomLevel, collapsedSectors,
                   sheetOpen, sheetData, created, gestures>>

\* clampSlotIndex(slotIndex) and clampSlotIndex(clampSlotIndex(slotIndex))
ClampSlotIndexCall ==
  \E slotIndex \in TransformSlots :
    /\ last' = [event |-> "clampSlotIndex", slotIndex |-> slotIndex,
                once |-> clampSlotIndex(slotIndex),
                twice |-> clampSlotIndex(clampSlotIndex(slotIndex))]
    /\ UNCHANGED <<twin, scroll, reservations, past, future, dragState, zoomLevel, collapsedSectors,
                   sheetOpen, sheetData, created, gestures>>

\* sector and table lists handed to the layout: the seed, the seed in
\* another list order, and the seed with a third, empty sector in front
LayoutSectorLists ==
  {sectors,
   <<sectors[2], sectors[1]>>,
   <<[id |-> "S3", sortOrder |-> 2], sectors[2], sectors[1]>>}
LayoutTableLists ==
  {tables,
   <<tables[5], tables[3], tables[1], tables[4], tables[2]>>}
LayoutCollapsed == SUBSET {"S1", "S2"}
LayoutFilters == {{}, {"S2"}}
LayoutZoomLevels == {50, 100, 150}

\* useGridLayout({sectors, tables, collapsedSectors, filterSectorIds,
\* rowHeight, sectorHeaderHeight})
GridLayoutCall ==
  \E secs \in LayoutSectorLists, tbls \in LayoutTableLists,
     collapsed \in LayoutCollapsed, filterSectorIds \in LayoutFilters,
     zoom \in LayoutZoomLevels :
    /\ last' = [event |-> "useGridLayout", sectors |-> secs, tables |-> tbls,
                collapsed |-> collapsed, filterSectorIds |-> filterSectorIds,
                rowHeight |-> getRowHeight(zoom),
                sectorHeaderHeight |-> getSectorHeaderHeight(zoom),
                result |-> useGridLayout(secs, tbls, collapsed, filterSectorIds,
                                         getRowHeight(zoom),
                                         getSectorHeaderHeight(zoom))]
    /\ UNCHANGED <<twin, scroll, reservations, past, future, dragState, zoomLevel, collapsedSectors,
                   sheetOpen, sheetData, created, gestures>>

\* viewport states: not yet measured (a zero dimension), at rest, scrolled
Viewports ==
  [scrollLeft : {0, 100, 1500, 2400}, scrollTop : {0, 60, 200},
   viewportWidth : {0, 800}, viewportHeight : {0, 300, 600}]

\* the visibleRange memo of TimelineGrid for the seed layout, nothing
\* collapsed
VisibleRangeCall ==
  \E viewport \in Viewports, zoom \in LayoutZoomLevels :
    /\ last' = [event |-> "visibleRange", viewport |-> viewport,
                slotWidth |-> getSlotWidth(zoom), rowHeight |-> getRowHeight(zoom),
                gridHeight |-> useGridLayout(sectors, tables, {}, {}, getRowHeight(zoom),
                                             getSectorHeaderHeight(zoom)).gridHeight,
                result |-> visibleRange(viewport, getSlotWidth(zoom), getRowHeight(zoom),
                                        getTotalSlots)]
    /\ UNCHANGED <<twin, scroll, reservations, past, future, dragState, zoomLevel, collapsedSectors,
                   sheetOpen, sheetData, created, gestures>>

NextTransforms ==
  \/ TimeToSlotIndexCall
  \/ ClampSlotIndexCall
  \/ GridLayoutCall
  \/ VisibleRangeCall

SpecTransforms == InitTransforms /\ [][NextTransforms]_vars

\* ------------------------------------------------ scrolling the timeline
ScrollPositions ==
  {[left |-> 0, top |-> 0], [left |-> 40, top |-> 0], [left |-> 120, top |-> 0],
   [left |-> 40, top |-> 80], [left |-> 50, top |-> 50]}

InitScroll ==
  /\ reservations = <<>>
  /\ past = <<>>
  /\ future = <<>>
  /\ dragState = initialDragState
  /\ zoomLevel = 100
  /\ collapsedSectors = {}
  /\ sheetOpen = FALSE
  /\ sheetData = NoResult
  /\ created = 0
  /\ gestures = 0
  /\ last = Quiet("none")
  /\ scroll = initialScroll
  /\ twin = NoTwin

\* a scroll event of the container: the browser has moved it to position pos,
\* Timeline.handleScroll runs, and useVirtualization.handleScroll is called
\* with the position
ScrollEvent ==
  \E pos \in ScrollPositions :
    LET moved == [scroll EXCEPT !.dom = pos, !.events = @ + 1,
                    !.exceeded = @ \/ movedBeyondThreshold(pos, scroll.lastScroll)]
        after == useVirtualization_handleScroll(Timeline_handleScroll(moved),
                                                pos.left, pos.top)
    IN /\ scroll.events < MaxScrollEvents
       /\ scroll' = after
       /\ last' = [event |-> "scroll", position |-> pos,
                   lastScroll |-> scroll.lastScroll,
                   requested |-> after.callbacks > scroll.callbacks]
       /\ UNCHANGED <<twin, reservations, past, future, dragState, zoomLevel,
                      collapsedSectors, sheetOpen, sheetData, created, gestures>>

\* the next animation frame: the browser runs the requested frame callbacks
AnimationFrame ==
  LET t == IF scroll.rafRef THEN Timeline_frameCallback(scroll) ELSE scroll
      v == IF t.vRafRef THEN useVirtualization_frameCallback(t) ELSE t
  IN /\ scroll.events > 0
     /\ scroll' = [v EXCEPT !.events = 0, !.callbacks = 0, !.vCallbacks = 0,
                            !.exceeded = FALSE]
     /\ last' = [event |-> "frame", ranTimeline |-> scroll.rafRef,
                 ranVirtualization |-> scroll.vRafRef,
                 lastScroll |-> scroll.lastScroll,
                 exceeded |-> scroll.exceeded, events |-> scroll.events]
     /\ UNCHANGED <<twin, reservations, past, future, dragState, zoomLevel,
                    collapsedSectors, sheetOpen, sheetData, created, gestures>>

NextScroll ==
  \/ ScrollEvent
  \/ AnimationFrame

SpecScroll == InitScroll /\ [][NextScroll]_vars

\* ------------------------------------- the same gesture under two viewports
\* The timeline as one record: the store fields a gesture touches, the create
\* sheet of TimelineGrid, and the viewport prop TimelineGrid is rendered with.
createInitialViewport ==
  [scrollLeft |-> 0, scrollTop |-> 0, viewportWidth |-> 0, viewportHeight |-> 0]

timeline ==
  [reservations |-> reservations, past |-> past, future |-> future,
   dragState |-> dragState, sheetOpen |-> sheetOpen, sheetData |-> sheetData,
   viewport |-> createInitialViewport]

\* TimelineGrid.visibleTables: the rows [id, y] that intersect the render range
visibleTables(viewport, collapsed, zoom) ==
  LET range == visibleRange(viewport, getSlotWidth(zoom), getRowHeight(zoom),
                            getTotalSlots)
  IN SelectSeq(computeLayout(collapsed, zoom).offsets,
               LAMBDA o : o.y + getRowHeight(zoom) > range.startY /\ o.y < range.endY)

\* TimelineGrid.visibleReservations: the reservations of the visible rows
\* whose block intersects the visible columns (kept in list order)
visibleReservations(resList, viewport, collapsed, zoom) ==
  LET slotWidth == getSlotWidth(zoom)
      range == visibleRange(viewport, slotWidth, getRowHeight(zoom), getTotalSlots)
      rows == visibleTables(viewport, collapsed, zoom)
  IN SelectSeq(resList, LAMBDA r :
       LET startSlot == timeToSlotIndex(r.startTime)
           endSlot == startSlot + durationToSlots(r.durationMinutes)
       IN /\ \E k \in 1..Len(rows) : rows[k].id = r.tableId
          /\ endSlot * slotWidth > range.startCol * slotWidth
          /\ startSlot * slotWidth < range.endCol * slotWidth)

isBlockRendered(reservation, viewport, collapsed, zoom) ==
  visibleReservations(<<reservation>>, viewport, collapsed, zoom) # <<>>

\* TimelineGrid.handleMouseDown at grid position (x, y)
TimelineGrid_handleMouseDown(t, x, y, collapsed, zoom) ==
  LET tableId == getTableIdByY(y, collapsed, zoom)
  IN IF tableId = NULL THEN t
     ELSE [t EXCEPT !.dragState = handleCreateDragStart(@, tableId, x, zoom)]

\* ReservationBlock.handleMouseDown at relativeX on the block of reservation
ReservationBlock_handleMouseDown(t, reservation, relativeX, zoom) ==
  LET slotWidth == getSlotWidth(zoom)
      left == timeToSlotIndex(reservation.startTime) * slotWidth
      width == Max(durationToSlots(reservation.durationMinutes) * slotWidth,
                   MIN_BLOCK_WIDTH)
  IN [t EXCEPT !.dragState =
        IF relativeX < EDGE_MARGIN
        THEN handleResizeDragStart(@, reservation.id, "start", left + relativeX, zoom)
        ELSE IF relativeX > width - EDGE_MARGIN
        THEN handleResizeDragStart(@, reservation.id, "end", left + relativeX, zoom)
        ELSE handleMoveDragStart(@, t.reservations, reservation.id,
                                 reservation.tableId, left + relativeX, zoom)]

\* TimelineGrid.handleMouseMove at grid position (x, y)
TimelineGrid_handleMouseMove(t, x, y, collapsed, zoom) ==
  IF ~t.dragState.isDragging THEN t
  ELSE [t EXCEPT !.dragState =
          CASE @.dragType = "create" -> handleCreateDragMove(@, x, zoom)
            [] @.dragType = "move" -> handleMoveDragMove(@, x, y, collapsed, zoom)
            [] @.dragType \in {"resize-start", "resize-end"} ->
                 handleResizeDragMove(@, x, zoom)
            [] OTHER -> @]

\* what TimelineGrid.handleMouseUp does with the reservation list resList
mouseUpWith(t, resList) ==
  LET ds == t.dragState
      st == [reservations |-> t.reservations, past |-> t.past, future |-> t.future]
      result ==
        CASE ds.dragType = "create" -> handleCreateDragEnd(ds)
          [] ds.dragType = "move" -> handleMoveDragEnd(ds, resList)
          [] ds.dragType \in {"resize-start", "resize-end"} ->
               handleResizeDragEnd(ds, resList)
          [] OTHER -> NoResult
      emitted ==
        IF result.kind = "create" /\ result.durationMinutes < 30 THEN NoResult
        ELSE result
      outcome ==
        CASE emitted.kind = "move" ->
               updateReservation(st, emitted.reservationId,
                                 [tableId |-> emitted.newTableId,
                                  startTime |-> emitted.newStartTime])
          [] emitted.kind = "resize" ->
               updateReservation(st, emitted.reservationId,
                                 [startTime |-> emitted.newStartTime,
                                  durationMinutes |-> emitted.newDurationMinutes])
          [] OTHER -> [success |-> FALSE, st |-> st]
  IN IF ~ds.isDragging THEN t
     ELSE IF hasConflict(ds, resList)
     THEN [t EXCEPT !.dragState = cancelDrag(ds)]
     ELSE [t EXCEPT !.dragState = IF ds.dragType = NULL THEN ds
                                  ELSE resetDragState(ds),
                    !.reservations = outcome.st.reservations,
                    !.past = outcome.st.past,
                    !.future = outcome.st.future,
                    !.sheetData = IF emitted.kind = "create" THEN emitted ELSE @,
                    !.sheetOpen = IF emitted.kind = "create" THEN TRUE ELSE @]

TimelineGrid_handleMouseUp_renderedOnly(t, collapsed, zoom) ==
  mouseUpWith(t, visibleReservations(t.reservations, t.viewport, collapsed, zoom))
\* TimelineGrid.handleMouseUp: the hook reads the store's reservations
TimelineGrid_handleMouseUp(t, collapsed, zoom) ==
  mouseUpWith(t, t.reservations)

\* TimelineGrid.handleMouseLeave
TimelineGrid_handleMouseLeave(t) ==
  IF t.dragState.isDragging THEN [t EXCEPT !.dragState = cancelDrag(@)] ELSE t

\* the viewports of the second timeline: measured at the origin, and a narrow
\* window scrolled to the right end of the grid
TwinViewports(zoom) ==
  {[scrollLeft |-> 0, scrollTop |-> 0, viewportWidth |-> 800, viewportHeight |-> 600],
   [scrollLeft |-> getTotalSlots * getSlotWidth(zoom) - 200, scrollTop |-> 0,
    viewportWidth |-> 200, viewportHeight |-> 600]}

\* two timelines over the same reservations, tables and layout: the first in
\* the variables, with the viewport it is mounted with, the second in twin
InitViewports ==
  /\ InitCommon
  /\ dragState = initialDragState
  /\ gestures = 0
  /\ \E viewport \in TwinViewports(zoomLevel) :
       twin = [timeline EXCEPT !.viewport = viewport]

\* the first timeline takes the value t; the second takes w
BothBecome(t, w) ==
  /\ reservations' = t.reservations
  /\ past' = t.past
  /\ future' = t.future
  /\ dragState' = t.dragState
  /\ sheetOpen' = t.sheetOpen
  /\ sheetData' = t.sheetData
  /\ twin' = w
  /\ UNCHANGED <<scroll, zoomLevel, collapsedSectors, created>>

\* the same pointer-down on the grid arrives at both timelines
BothGridMouseDown ==
  \E x \in PointerXs, y \in PointerYs :
    /\ gestures < MaxGestures
    /\ getTableIdByY(y, collapsedSectors, zoomLevel) # NULL
    /\ BothBecome(TimelineGrid_handleMouseDown(timeline, x, y, collapsedSectors, zoomLevel),
                  TimelineGrid_handleMouseDown(twin, x, y, collapsedSectors, zoomLevel))
    /\ gestures' = gestures + 1
    /\ last' = Quiet("down")

\* the same pointer-down on the block of a reservation, which both timelines
\* render, arrives at both
BothBlockMouseDown ==
  \E i \in 1..Len(reservations) :
    LET reservation == reservations[i]
        width == Max(durationToSlots(reservation.durationMinutes)
                       * getSlotWidth(zoomLevel), MIN_BLOCK_WIDTH)
    IN \E relativeX \in BlockRelXs(width) :
         /\ gestures < MaxGestures
         /\ isBlockRendered(reservation, timeline.viewport, collapsedSectors, zoomLevel)
         /\ isBlockRendered(reservation, twin.viewport, collapsedSectors, zoomLevel)
         /\ BothBecome(ReservationBlock_handleMouseDown(timeline, reservation,
                                                        relativeX, zoomLevel),
                       ReservationBlock_handleMouseDown(twin, reservation,
                                                        relativeX, zoomLevel))
         /\ gestures' = gestures + 1
         /\ last' = Quiet("down")

\* the same pointer-move arrives at both timelines
BothMouseMove ==
  \E x \in PointerXs, y \in PointerYs :
    /\ dragState.isDragging
    /\ BothBecome(TimelineGrid_handleMouseMove(timeline, x, y, collapsedSectors, zoomLevel),
                  TimelineGrid_handleMouseMove(twin, x, y, collapsedSectors, zoomLevel))
    /\ last' = Quiet("move")
    /\ UNCHANGED gestures

\* the same pointer-up arrives at both timelines
BothMouseUp ==
  /\ dragState.isDragging
  /\ BothBecome(TimelineGrid_handleMouseUp(timeline, collapsedSectors, zoomLevel),
                TimelineGrid_handleMouseUp(twin, collapsedSectors, zoomLevel))
  /\ last' = Observe("up", dragState, hasConflict(dragState, reservations), NoResult)
  /\ UNCHANGED gestures

\* the pointer leaves the grid of both timelines
BothMouseLeave ==
  /\ dragState.isDragging
  /\ BothBecome(TimelineGrid_handleMouseLeave(timeline),
                TimelineGrid_handleMouseLeave(twin))
  /\ last' = Quiet("leave")
  /\ UNCHANGED gestures

\* the second timeline is scrolled or resized, the first is not
TwinScroll ==
  \E viewport \in TwinViewports(zoomLevel) :
    /\ viewport # twin.viewport
    /\ twin' = [twin EXCEPT !.viewport = viewport]
    /\ last' = Quiet("scroll")
    /\ UNCHANGED <<scroll, reservations, past, future, dragState, zoomLevel,
                   collapsedSectors, sheetOpen, sheetData, created, gestures>>

NextViewports ==
  \/ BothGridMouseDown
  \/ BothBlockMouseDown
  \/ BothMouseMove
  \/ BothMouseUp
  \/ BothMouseLeave
  \/ TwinScroll

SpecViewports == InitViewports /\ [][NextViewports]_vars

\* --------------------------------------------- edits of the reservation list
\* store.duplicateReservation(id): a copy with a fresh id and status PENDING
storeDuplicateReservation(st, id, newId) ==
  LET original == getReservationById(id, st.reservations)
      h == saveToHistory(st.past, st.reservations)
  IN IF original.id = NULL THEN st
     ELSE [reservations |-> Append(st.reservations,
                                   [original EXCEPT !.id = newId, !.status = "PENDING"]),
           past |-> h.past, future |-> h.future]

\* store.undo
storeUndo(st) ==
  IF Len(st.past) = 0 THEN st
  ELSE [past |-> SubSeq(st.past, 1, Len(st.past) - 1),
        future |-> <<st.reservations>> \o st.future,
        reservations |-> st.past[Len(st.past)]]

\* store.redo
storeRedo_clearsFuture(st) ==
  IF Len(st.future) = 0 THEN st
  ELSE [past |-> Append(st.past, st.reservations),
        future |-> <<>>,
        reservations |-> st.future[1]]
storeRedo(st) ==
  IF Len(st.future) = 0 THEN st
  ELSE [past |-> Append(st.past, st.reservations),
        future |-> Tail(st.future),
        reservations |-> st.future[1]]

\* the list the edits start from: r1 starts off the slot grid
StoreInitialList ==
  <<[id |-> "r1", tableId |-> "T1", partySize |-> 2, startTime |-> 727,
     endTime |-> 787, durationMinutes |-> 60, status |-> "CONFIRMED"],
    [id |-> "r2", tableId |-> "T2", partySize |-> 2, startTime |-> 780,
     endTime |-> 840, durationMinutes |-> 60, status |-> "SEATED"]>>

\* sessions handed to store.setDragState: a create on T4, a move of r1 onto T3
\* and resizes of both edges of r1
StoreSessions ==
  {[isDragging |-> TRUE, dragType |-> "create", startSlot |-> 10, endSlot |-> 14,
    tableId |-> "T4", reservationId |-> NULL],
   [isDragging |-> TRUE, dragType |-> "move", startSlot |-> 4, endSlot |-> 6,
    tableId |-> "T3", reservationId |-> "r1"],
   [isDragging |-> TRUE, dragType |-> "resize-end", startSlot |-> 8, endSlot |-> 11,
    tableId |-> NULL, reservationId |-> "r1"],
   [isDragging |-> TRUE, dragType |-> "resize-start", startSlot |-> 4, endSlot |-> 2,
    tableId |-> NULL, reservationId |-> "r1"]}

\* inputs of updateReservation as the edit form gives them
FormUpdates ==
  {[startTime |-> 900], [durationMinutes |-> 45],
   [startTime |-> 765, durationMinutes |-> 120]}

InitStore ==
  /\ reservations = StoreInitialList
  /\ past = <<>>
  /\ future = <<>>
  /\ dragState = initialDragState
  /\ zoomLevel = 100
  /\ collapsedSectors = {}
  /\ sheetOpen = FALSE
  /\ sheetData = NoResult
  /\ created = 0
  /\ gestures = 0
  /\ last = Quiet("none")
  /\ scroll = initialScroll
  /\ twin = NoTwin

\* store.setDragState(session) while no session is active
PlaceSession ==
  \E session \in StoreSessions :
    /\ ~dragState.isDragging
    /\ Len(past) + Len(future) < MaxEdits
    /\ dragState' = setDragState(dragState, session)
    /\ last' = Quiet("down")
    /\ UNCHANGED <<twin, scroll, reservations, past, future, zoomLevel,
                   collapsedSectors, sheetOpen, sheetData, created, gestures>>

\* useReservationActions.updateReservation(id, input) from the edit form, on
\* the first or the newest reservation
FormUpdate ==
  \E i \in {1, Len(reservations)}, input \in FormUpdates :
    LET outcome == updateReservation(store, reservations[i].id, input)
    IN /\ Len(past) + Len(future) < MaxEdits
       /\ reservations' = outcome.st.reservations
       /\ past' = outcome.st.past
       /\ future' = outcome.st.future
       /\ last' = Quiet("form")
       /\ UNCHANGED <<twin, scroll, dragState, zoomLevel, collapsedSectors,
                      sheetOpen, sheetData, created, gestures>>

\* store.duplicateReservation(id) of the first reservation
Duplicate ==
  \E i \in {1} :
    LET st == storeDuplicateReservation(store, reservations[i].id, NewIds[created + 1])
    IN /\ created < MaxCreated
       /\ Len(past) + Len(future) < MaxEdits
       /\ reservations' = st.reservations
       /\ past' = st.past
       /\ future' = st.future
       /\ created' = created + 1
       /\ last' = Quiet("duplicate")
       /\ UNCHANGED <<twin, scroll, dragState, zoomLevel, collapsedSectors,
                      sheetOpen, sheetData, gestures>>

\* store.undo
Undo ==
  /\ Len(past) > 0
  /\ reservations' = storeUndo(store).reservations
  /\ past' = storeUndo(store).past
  /\ future' = storeUndo(store).future
  /\ last' = Quiet("undo")
  /\ UNCHANGED <<twin, scroll, dragState, zoomLevel, collapsedSectors,
                 sheetOpen, sheetData, created, gestures>>

\* store.redo
Redo ==
  /\ Len(future) > 0
  /\ reservations' = storeRedo(store).reservations
  /\ past' = storeRedo(store).past
  /\ future' = storeRedo(store).future
  /\ last' = Quiet("redo")
  /\ UNCHANGED <<twin, scroll, dragState, zoomLevel, collapsedSectors,
                 sheetOpen, sheetData, created, gestures>>

\* the create sheet is submitted while edits remain
SubmitSheetEdit ==
  /\ Len(past) + Len(future) < MaxEdits
  /\ SubmitSheet

NextStore ==
  \/ PlaceSession
  \/ MouseUp
  \/ SubmitSheetEdit
  \/ CloseSheet
  \/ FormUpdate
  \/ Duplicate
  \/ Undo
  \/ Redo

SpecStore == InitStore /\ [][NextStore]_vars

\* ---------------------------------------------------------- long histories
\* store.updateReservationStatus
storeUpdateReservationStatus(st, id, status) ==
  LET h == saveToHistory(st.past, st.reservations)
  IN [reservations |->
        [i \in 1..Len(st.reservations) |->
           IF st.reservations[i].id = id
           THEN [st.reservations[i] EXCEPT !.status = status]
           ELSE st.reservations[i]],
      past |-> h.past, future |-> h.future]

\* the status button of r2 toggles between seated and finished
toggledStatus(resList) ==
  IF getReservationById("r2", resList).status = "SEATED" THEN "FINISHED" ELSE "SEATED"

\* gestures counts the steps made since the first undo; the edits before it
\* are not counted, so the undo stack fills up to its cap
InitHistory ==
  /\ reservations = StoreInitialList
  /\ past = <<>>
  /\ future = <<>>
  /\ dragState = initialDragState
  /\ zoomLevel = 100
  /\ collapsedSectors = {}
  /\ sheetOpen = FALSE
  /\ sheetData = NoResult
  /\ created = 0
  /\ gestures = 0
  /\ last = Quiet("none")
  /\ scroll = initialScroll
  /\ twin = NoTwin

HistoryStep(event, st, counted) ==
  /\ gestures < MaxHistorySteps
  /\ reservations' = st.reservations
  /\ past' = st.past
  /\ future' = st.future
  /\ gestures' = IF counted THEN gestures + 1 ELSE gestures
  /\ last' = Quiet(event)
  /\ UNCHANGED <<twin, scroll, dragState, zoomLevel, collapsedSectors,
                 sheetOpen, sheetData, created>>

\* store.updateReservationStatus("r2", status)
StatusEdit ==
  HistoryStep("status",
              storeUpdateReservationStatus(store, "r2", toggledStatus(reservations)),
              gestures > 0)

\* store.undo while canUndo
HistoryUndo == Len(past) > 0 /\ HistoryStep("undo", storeUndo(store), TRUE)

\* store.redo while canRedo
HistoryRedo == Len(future) > 0 /\ HistoryStep("redo", storeRedo(store), TRUE)

NextHistory ==
  \/ StatusEdit
  \/ HistoryUndo
  \/ HistoryRedo

SpecHistory == InitHistory /\ [][NextHistory]_vars

\* ================================================================== claims
\* what the last pointer-up released
Released(kind) == last.event = "up" /\ last.drag.isDragging /\ last.drag.dragType = kind
ReleasedResize ==
  last.event = "up" /\ last.drag.isDragging
  /\ last.drag.dragType \in {"resize-start", "resize-end"}
LastSlotDiff == last.drag.endSlot - last.drag.startSlot
SubjectNow == getReservationById(last.subject.id, reservations)
Clamp(v, lo, hi) == IF v < lo THEN lo ELSE IF v > hi THEN hi ELSE v

\* C1: starting from a list without double bookings, after every committed
\* drag mutation (create through the sheet, move, resize) no two reservations
\* that are not CANCELLED overlap in time on the same table.
C1_NoDoubleBooking ==
  \A i, j \in 1..Len(reservations) :
    (/\ i # j
     /\ reservations[i].tableId = reservations[j].tableId
     /\ reservations[i].status # "CANCELLED"
     /\ reservations[j].status # "CANCELLED")
    => ~(/\ reservations[i].startTime < reservations[j].endTime
         /\ reservations[j].startTime < reservations[i].endTime)

\* a move was committed onto a table that holds another active reservation
C1_Witness ==
  /\ Released("move")
  /\ last.result.kind = "move"
  /\ past # <<>>
  /\ SubjectNow.startTime # last.subject.startTime
  /\ SubjectNow.status # "CANCELLED"
  /\ \E j \in 1..Len(reservations) :
       /\ reservations[j].id # SubjectNow.id
       /\ reservations[j].tableId = SubjectNow.tableId
       /\ reservations[j].status # "CANCELLED"

\* C2: a pointer-up while the live conflict flag is true prevents the drop:
\* nothing is emitted, the store and the sheet are unchanged and the session
\* is idle again.
C2_ConflictPreventsDrop ==
  [][(/\ dragState.isDragging
      /\ hasConflict(dragState, reservations)
      /\ last'.event = "up")
     => (/\ reservations' = reservations
         /\ past' = past
         /\ future' = future
         /\ sheetData' = sheetData
         /\ sheetOpen' = sheetOpen
         /\ last'.result = NoResult
         /\ dragState' = initialDragState)]_vars

C2_Witness ==
  /\ last.event = "up"
  /\ last.drag.isDragging
  /\ last.conflict
  /\ dragState = initialDragState

\* C3: a move commit keeps the duration: newEnd - newStart is the moved
\* reservation's durationMinutes, also when the new start slot is clamped.
C3_MovePreservesDuration ==
  (Released("move") /\ last.result.kind = "move")
  => (/\ last.result.newEndTime - last.result.newStartTime
           = last.subject.durationMinutes
      /\ SubjectNow.endTime - SubjectNow.startTime = last.subject.durationMinutes)

\* a move whose new start slot was clamped at the last slot of the window
C3_Witness ==
  /\ Released("move")
  /\ last.result.kind = "move"
  /\ (last.subject.startTime - START_HOUR * 60) \div SLOT_MINUTES + LastSlotDiff
       > getTotalSlots - 1
  /\ last.result.newStartTime = START_HOUR * 60 + (getTotalSlots - 1) * SLOT_MINUTES
  /\ past # <<>>

\* C4: the new start of a move is the time of slot
\* clamp(originalStartSlot + slotDiff), slotDiff being the session's
\* endSlot - startSlot and originalStartSlot the slot of the old start.
C4_MoveStartFromDelta ==
  (Released("move") /\ last.result.kind = "move")
  => last.result.newStartTime
       = START_HOUR * 60
         + SLOT_MINUTES
           * Clamp((last.subject.startTime - START_HOUR * 60) \div SLOT_MINUTES
                     + LastSlotDiff,
                   0, ((END_HOUR - START_HOUR) * 60) \div SLOT_MINUTES - 1)

\* a move by a non-zero delta that is not clamped and whose new start slot is
\* not the slot under the pointer
C4_Witness ==
  /\ Released("move")
  /\ last.result.kind = "move"
  /\ LastSlotDiff # 0
  /\ last.result.newStartTime
       = last.subject.startTime + LastSlotDiff * SLOT_MINUTES
  /\ last.result.newStartTime
       # START_HOUR * 60 + last.drag.endSlot * SLOT_MINUTES

\* C5: every resize commit has 30 <= newDurationMinutes <= 360; a 60-minute
\* reservation resized at its end by 10 slots to the left commits 30.
C5_ResizeDurationBounds ==
  (ReleasedResize /\ last.result.kind = "resize")
  => (/\ last.result.newDurationMinutes >= 30
      /\ last.result.newDurationMinutes <= 360
      /\ (/\ last.drag.dragType = "resize-end"
          /\ last.subject.durationMinutes = 60
          /\ LastSlotDiff = -10)
         => last.result.newDurationMinutes = 30)

C5_Witness ==
  /\ ReleasedResize
  /\ last.result.kind = "resize"
  /\ last.drag.dragType = "resize-end"
  /\ last.subject.durationMinutes = 60
  /\ LastSlotDiff = -10
  /\ SubjectNow.durationMinutes = 30

C7_CreateSpanBounds ==
  (last.event = "move" /\ dragState.isDragging /\ dragState.dragType = "create")
  => (/\ dragState.endSlot - dragState.startSlot >= 2
      /\ dragState.endSlot - dragState.startSlot <= 24)

\* the anchor is the last slot, so the pointer is on it or left of it
C7_Witness ==
  /\ last.event = "move"
  /\ dragState.isDragging
  /\ dragState.dragType = "create"
  /\ dragState.startSlot = getTotalSlots - 1
  /\ dragState.endSlot = dragState.startSlot + 2

\* C8 as stated: on pointer-up in a create session a result is emitted if and
\* only if (endSlot - startSlot) * 15 >= 30, and the session is cleared.
C8_Original ==
  Released("create")
  => (/\ (last.result.kind = "create") <=> (LastSlotDiff * SLOT_MINUTES >= 30)
      /\ dragState = initialDragState)

\* C8 amended: on pointer-up in a create session the result {table,
\* start = time of startSlot, end = time of endSlot, duration} is emitted if
\* and only if (endSlot - startSlot) * 15 >= 30 and the live conflict flag is
\* false; the session is cleared in every case.
C8_CreateEmitsIffLongEnoughAndFree ==
  Released("create")
  => (/\ (last.result.kind = "create")
           <=> (LastSlotDiff * SLOT_MINUTES >= 30 /\ ~last.conflict)
      /\ last.result.kind = "create"
           => last.result =
                [kind |-> "create", tableId |-> last.drag.tableId,
                 startTime |-> START_HOUR * 60 + last.drag.startSlot * SLOT_MINUTES,
                 endTime |-> START_HOUR * 60 + last.drag.endSlot * SLOT_MINUTES,
                 durationMinutes |-> LastSlotDiff * SLOT_MINUTES]
      /\ last.result.kind # "create" => last.result = NoResult
      /\ dragState = initialDragState)

\* a create session of at least 30 minutes released without conflict
C8_Witness ==
  /\ Released("create")
  /\ last.result.kind = "create"
  /\ sheetOpen
  /\ sheetData = last.result

C10_CancelIsTotal ==
  [][(dragState.isDragging /\ last'.event \in {"leave", "cancel"})
     => (/\ dragState' = initialDragState
         /\ last'.result = NoResult
         /\ reservations' = reservations
         /\ past' = past
         /\ future' = future
         /\ sheetData' = sheetData
         /\ sheetOpen' = sheetOpen)]_vars

\* a move session that had left its start slot and table was cancelled
C10_Witness ==
  /\ last.event = "leave"
  /\ last.drag.isDragging
  /\ last.drag.dragType = "move"
  /\ last.drag.endSlot # last.drag.startSlot
  /\ last.drag.tableId # last.subject.tableId
  /\ dragState = initialDragState
  /\ past = <<>>

\* a session that cannot be committed: a slot, the target table (create,
\* move) or the subject reservation (move, resize) is missing
Incomplete(ds, resList) ==
  /\ ds.isDragging
  /\ ds.dragType \in {"create", "move", "resize-start", "resize-end"}
  /\ \/ ds.startSlot = NoSlot
     \/ ds.endSlot = NoSlot
     \/ ds.dragType \in {"create", "move"} /\ ds.tableId = NULL
     \/ /\ ds.dragType \in {"move", "resize-start", "resize-end"}
        /\ \/ ds.reservationId = NULL
           \/ getReservationById(ds.reservationId, resList).id = NULL

\* C11: a pointer-up on an incomplete session (missing start or end slot,
\* target table for create and move, subject reservation id for move and
\* resize, or a subject that is no longer in the store) yields no result,
\* mutates neither the reservation list, the history nor the sheet, and
\* clears the session.
C11_IncompleteCommitIsSilent ==
  [][(Incomplete(dragState, reservations) /\ last'.event = "up")
     => (/\ last'.result = NoResult
         /\ dragState' = initialDragState
         /\ reservations' = reservations
         /\ past' = past
         /\ future' = future
         /\ sheetOpen' = sheetOpen
         /\ sheetData' = sheetData)]_vars

\* a move session whose subject reservation is not in the store was released
C11_Witness ==
  /\ last.event = "up"
  /\ last.drag.isDragging
  /\ last.drag.dragType = "move"
  /\ last.drag.reservationId = "gone"
  /\ last.subject.id = NULL
  /\ last.result = NoResult
  /\ dragState = initialDragState

\* C12: every slot index converted to a time during a gesture, by the live
\* conflict check of a render or by the drag-end handler at release, the
\* create session's endSlot included, lies in [0, totalSlots - 1].
C12_ConvertedSlotsInRange ==
  \A slot \in hasConflictSlots(dragState, reservations)
              \cup (IF dragState.isDragging /\ ~hasConflict(dragState, reservations)
                    THEN dragEndSlots(dragState, reservations) ELSE {}) :
    0 <= slot /\ slot <= getTotalSlots - 1

\* C13: no committed create, move or resize leaves a reservation that
\* starts before the start of service hours (11:00) or ends after their end
\* (24:00).
C13_WithinServiceHours ==
  \A i \in 1..Len(reservations) :
    /\ reservations[i].startTime >= START_HOUR * 60
    /\ reservations[i].endTime <= END_HOUR * 60

\* C14: while a session is active, a pointer-down on the grid or on a
\* reservation block starts no new gesture and overwrites no field of the
\* active session.
C14_SingleSession ==
  [][(dragState.isDragging /\ last'.event = "down") => dragState' = dragState]_vars

\* observations of a direct checkConflict call
CheckedConflict == last.event = "checkConflict"
ReportedIds ==
  {last.result.conflictingReservationIds[k] :
     k \in DOMAIN last.result.conflictingReservationIds}
Touching(p, r) == r.startTime = p.endTime \/ r.endTime = p.startTime

\* C15: checkConflict reports hasConflict exactly when some reservation on
\* the same table, not CANCELLED and not the excluded id, satisfies
\* proposed.start < other.end and proposed.end > other.start, and
\* conflictingIds holds the id of every such reservation and no other id.
C15_ConflictExactly ==
  CheckedConflict =>
    LET p == last.proposed
        matching ==
          {i \in 1..Len(reservations) :
             /\ reservations[i].tableId = p.tableId
             /\ reservations[i].status # "CANCELLED"
             /\ reservations[i].id # last.excludeId
             /\ p.startTime < reservations[i].endTime
             /\ p.endTime > reservations[i].startTime}
    IN /\ last.result.hasConflict <=> matching # {}
       /\ ReportedIds = {reservations[i].id : i \in matching}
       /\ Len(last.result.conflictingReservationIds) = Cardinality(matching)

\* two reservations conflict with the proposal, a third entry does not
C15_Witness ==
  /\ CheckedConflict
  /\ Len(reservations) = 3
  /\ last.result.hasConflict
  /\ Cardinality(ReportedIds) = 2

\* C16: a reservation that starts exactly when the proposed interval ends,
\* or ends exactly when it starts, is not reported; a list holding only
\* such reservations yields hasConflict = false.
C16_TouchingDoesNotConflict ==
  CheckedConflict =>
    /\ \A i \in 1..Len(reservations) :
         Touching(last.proposed, reservations[i]) => reservations[i].id \notin ReportedIds
    /\ (\A i \in 1..Len(reservations) : Touching(last.proposed, reservations[i]))
         => ~last.result.hasConflict

\* 12:00-13:00 proposed on T1 against an active 13:00-14:00 on T1
C16_Witness ==
  /\ CheckedConflict
  /\ last.proposed = [tableId |-> "T1", startTime |-> 720, endTime |-> 780]
  /\ last.excludeId = NULL
  /\ Len(reservations) = 1
  /\ reservations[1].tableId = "T1"
  /\ reservations[1].status = "CONFIRMED"
  /\ reservations[1].startTime = 780
  /\ ~last.result.hasConflict

\* C17: for two active reservations a and b on one table, checking a
\* against the list holding only b reports a conflict exactly when
\* checking b against the list holding only a does.
C17_OverlapSymmetric ==
  last.event = "checkConflictPair" => (last.ab.hasConflict <=> last.ba.hasConflict)

\* two different intervals that overlap, the first starting strictly earlier
C17_Witness ==
  /\ last.event = "checkConflictPair"
  /\ last.a.startTime < last.b.startTime
  /\ last.a.endTime < last.b.endTime
  /\ last.ab.hasConflict
  /\ last.ba.hasConflict

\* C18: checkConflict with excludeId = X never lists X, whatever X's table,
\* span and status, and a list holding only X yields hasConflict = false.
C18_ExcludedNeverReported ==
  (CheckedConflict /\ last.excludeId # NULL) =>
    /\ last.excludeId \notin ReportedIds
    /\ (\A i \in 1..Len(reservations) : reservations[i].id = last.excludeId)
         => ~last.result.hasConflict

\* the excluded reservation is active, on the proposed table and overlaps
\* the proposed interval, and is the only entry of the list
C18_Witness ==
  /\ CheckedConflict
  /\ last.excludeId = "a"
  /\ Len(reservations) = 1
  /\ reservations[1].id = "a"
  /\ reservations[1].status = "CONFIRMED"
  /\ reservations[1].tableId = last.proposed.tableId
  /\ last.proposed.startTime < reservations[1].endTime
  /\ reservations[1].startTime < last.proposed.endTime
  /\ ~last.result.hasConflict

\* C19: a CANCELLED reservation is never listed in conflictingIds, and a
\* list holding only CANCELLED reservations yields hasConflict = false, even
\* when they overlap the proposed interval on the same table.
C19_CancelledIgnored ==
  CheckedConflict =>
    /\ \A i \in 1..Len(reservations) :
         reservations[i].status = "CANCELLED" => reservations[i].id \notin ReportedIds
    /\ (\A i \in 1..Len(reservations) : reservations[i].status = "CANCELLED")
         => ~last.result.hasConflict

\* a CANCELLED reservation lying inside the proposed interval on its table
C19_Witness ==
  /\ CheckedConflict
  /\ last.excludeId = NULL
  /\ \E i \in 1..Len(reservations) :
       /\ reservations[i].status = "CANCELLED"
       /\ reservations[i].tableId = last.proposed.tableId
       /\ last.proposed.startTime <= reservations[i].startTime
       /\ reservations[i].endTime <= last.proposed.endTime
  /\ \A i \in 1..Len(reservations) : reservations[i].status = "CANCELLED"
  /\ ~last.result.hasConflict

\* C20: findAlternativeTables returns exactly the tables other than the
\* excluded one whose [capacity.min, capacity.max] contains partySize, each
\* once, in ascending order of capacity.max; for tables of max capacity 4, 6
\* and 10 that all fit party size 4, the capacity-4 table excluded, the
\* result is [6, 10].
C20_AlternativeTables ==
  last.event = "findAlternativeTables" =>
    LET result == last.result
        fitting ==
          {last.tables[i] : i \in {k \in 1..Len(last.tables) :
             /\ last.tables[k].id # last.excludeTableId
             /\ last.tables[k].capMin <= last.partySize
             /\ last.partySize <= last.tables[k].capMax}}
    IN /\ {result[i] : i \in 1..Len(result)} = fitting
       /\ Len(result) = Cardinality(fitting)
       /\ \A i, j \in 1..Len(result) : i < j => result[i].capMax <= result[j].capMax
       /\ (/\ {last.tables[i].id : i \in 1..Len(last.tables)} = {"t4", "t6", "t10"}
           /\ last.partySize = 4
           /\ last.excludeTableId = "t4")
          => [i \in 1..Len(result) |-> result[i].capMax] = <<6, 10>>

\* the example, with the tables handed over in descending capacity
C20_Witness ==
  /\ last.event = "findAlternativeTables"
  /\ [i \in 1..Len(last.tables) |-> last.tables[i].id] = <<"t10", "t6", "t4">>
  /\ last.partySize = 4
  /\ last.excludeTableId = "t4"
  /\ [i \in 1..Len(last.result) |-> last.result[i].id] = <<"t6", "t10">>

\* C21: findAlternativeTimeSlots tries exactly the starts -30, -15, +15 and
\* +30 minutes from the given start, the duration unchanged, and returns, in
\* that order, every one of them whose interval overlaps no active
\* reservation of the table, and no other start.
C21_AlternativeTimeSlots ==
  last.event = "findAlternativeTimeSlots" =>
    LET free(altStart) ==
          \A i \in 1..Len(reservations) :
            ~(/\ reservations[i].tableId = last.tableId
              /\ reservations[i].status # "CANCELLED"
              /\ altStart < reservations[i].endTime
              /\ altStart + last.durationMinutes > reservations[i].startTime)
        tried == <<last.startTime - 30, last.startTime - 15,
                   last.startTime + 15, last.startTime + 30>>
    IN last.result = SelectSeq(tried, free)

\* some offsets are free and some are not, on both sides of the start
C21_Witness ==
  /\ last.event = "findAlternativeTimeSlots"
  /\ Len(last.result) \in {2, 3}
  /\ last.result[1] < last.startTime
  /\ last.result[Len(last.result)] > last.startTime

\* C22: for every time aligned to a 15-minute slot boundary, inside the
\* operating window or before its start (negative slot),
\* slotIndexToTime(timeToSlotIndex(t)) = t.
C22_SlotRoundTrip ==
  (last.event = "timeToSlotIndex" /\ (last.time - START_HOUR * 60) % SLOT_MINUTES = 0)
  => last.back = last.time

\* 10:30, half an hour before the window opens: slot -2
C22_Witness ==
  /\ last.event = "timeToSlotIndex"
  /\ last.time = 630
  /\ last.slot = -2
  /\ last.back = 630

\* C23: clampSlotIndex maps every integer into [0, totalSlots - 1] and is
\* idempotent.
C23_ClampIdempotent ==
  last.event = "clampSlotIndex" =>
    /\ 0 <= last.once /\ last.once <= getTotalSlots - 1
    /\ last.twice = last.once

\* a negative index is moved to slot 0 and stays there
C23_Witness ==
  /\ last.event = "clampSlotIndex"
  /\ last.slotIndex < 0
  /\ last.once = 0
  /\ last.twice = 0

\* the layout a walk in sortOrder must give, stated sector by sector
LaidOutSectors ==
  {i \in 1..Len(last.sectors) :
     last.filterSectorIds = {} \/ last.sectors[i].id \in last.filterSectorIds}
RowsOfSector(sectorId) ==
  IF sectorId \in last.collapsed THEN {}
  ELSE {i \in 1..Len(last.tables) : last.tables[i].sectorId = sectorId}
\* where the cursor stands when the walk reaches the sector
CursorBefore(sector) ==
  LET earlier == {i \in LaidOutSectors : last.sectors[i].sortOrder < sector.sortOrder}
      rows == UNION {RowsOfSector(last.sectors[i].id) : i \in earlier}
  IN Cardinality(earlier) * last.sectorHeaderHeight + Cardinality(rows) * last.rowHeight
OffsetOf(tableId) ==
  {o.y : o \in {last.result.tableYOffsets[k] : k \in DOMAIN last.result.tableYOffsets}
           \cap {[id |-> tableId, y |-> y] : y \in 0..last.result.cursor}}

\* C24: the layout walks the sectors in sortOrder with a running cursor:
\* each sector header sits at the cursor, which advances by the header
\* height; each table of a non-collapsed sector, in sortOrder, gets the
\* cursor as its offset, which advances by the row height; a collapsed
\* sector contributes its header and no table row; the grid height equals
\* the final cursor.
C24_LayoutWalk ==
  last.event = "useGridLayout" =>
    LET result == last.result
        headers == {result.sectorHeaderPositions[k] :
                      k \in DOMAIN result.sectorHeaderPositions}
    IN /\ headers = {[id |-> last.sectors[i].id, y |-> CursorBefore(last.sectors[i])] :
                       i \in LaidOutSectors}
       /\ \A j, k \in DOMAIN result.sectorHeaderPositions :
            j < k => result.sectorHeaderPositions[j].y < result.sectorHeaderPositions[k].y
       /\ \A i \in LaidOutSectors :
            \A t \in 1..Len(last.tables) :
              last.tables[t].sectorId = last.sectors[i].id =>
                LET above == {u \in RowsOfSector(last.sectors[i].id) :
                                last.tables[u].sortOrder < last.tables[t].sortOrder}
                IN OffsetOf(last.tables[t].id) =
                     IF last.sectors[i].id \in last.collapsed THEN {}
                     ELSE {CursorBefore(last.sectors[i]) + last.sectorHeaderHeight
                           + Cardinality(above) * last.rowHeight}
       /\ Len(result.tableYOffsets)
            = Cardinality(UNION {RowsOfSector(last.sectors[i].id) : i \in LaidOutSectors})
       /\ result.gridHeight = result.cursor
       /\ result.gridHeight
            = Cardinality(LaidOutSectors) * last.sectorHeaderHeight
              + Len(result.tableYOffsets) * last.rowHeight

\* the first sector is collapsed, the second is not, and the lists are not
\* handed over in sortOrder
C24_Witness ==
  /\ last.event = "useGridLayout"
  /\ last.collapsed = {"S1"}
  /\ last.filterSectorIds = {}
  /\ last.sectors[1].id = "S3"
  /\ last.tables[1].id = "T5"
  /\ last.rowHeight = 60
  /\ last.result.sectorHeaderPositions
       = <<[id |-> "S1", y |-> 0], [id |-> "S2", y |-> 32], [id |-> "S3", y |-> 184]>>
  /\ last.result.tableYOffsets = <<[id |-> "T4", y |-> 64], [id |-> "T5", y |-> 124]>>
  /\ last.result.gridHeight = 216

C26_Original ==
  /\ scroll.events > 0 => scroll.callbacks = 1 /\ scroll.vCallbacks = 1
  /\ (last.event = "frame" /\ last.ranTimeline) => scroll.viewport = scroll.dom
  /\ (last.event = "frame" /\ last.ranVirtualization)
       => scroll.scrollState = scroll.dom

\* C26: any number of scroll events between two animation frames requests at
\* most one frame callback per handler: exactly one in useVirtualization, and
\* in Timeline exactly one when some event of the burst was beyond the
\* threshold and none otherwise; the callback applies the latest scroll
\* position, not the position of the event that requested it.
C26_ScrollThrottle ==
  /\ scroll.callbacks <= 1
  /\ scroll.vCallbacks <= 1
  /\ scroll.events > 0 => scroll.vCallbacks = 1
  /\ scroll.events > 0 => (scroll.callbacks = 1 <=> scroll.exceeded)
  /\ scroll.rafRef <=> scroll.callbacks = 1
  /\ scroll.vRafRef <=> scroll.vCallbacks = 1
  /\ (last.event = "frame" /\ last.ranTimeline)
       => scroll.viewport = scroll.dom /\ scroll.lastScroll = scroll.dom
  /\ (last.event = "frame" /\ last.ranVirtualization)
       => scroll.scrollState = scroll.dom

\* a frame ran both callbacks after a burst of several events, and the position
\* applied is not the one that requested the Timeline callback (it is within
\* the threshold of the previous position)
C26_Witness ==
  /\ last.event = "frame"
  /\ last.ranTimeline
  /\ last.ranVirtualization
  /\ last.events >= 2
  /\ scroll.viewport = scroll.dom
  /\ ~movedBeyondThreshold(scroll.viewport, last.lastScroll)

\* C27 as stated: the viewport state is recomputed only when the scroll
\* position differs from the position at the last recompute by more than the
\* threshold on at least one axis, and a scroll event within the threshold on
\* both axes never requests a recompute.
C27_Original ==
  /\ (last.event = "frame" /\ last.ranTimeline)
       => movedBeyondThreshold(scroll.viewport, last.lastScroll)
  /\ (last.event = "scroll"
      /\ ~movedBeyondThreshold(last.position, last.lastScroll))
       => ~last.requested

\* C27: a recompute of the viewport state is requested only by a scroll event
\* whose position differs from the position at the last recompute by more
\* than the threshold on at least one axis, and it runs only after such an
\* event; a scroll event within the threshold on both axes never requests one.
C27_ScrollThreshold ==
  /\ (last.event = "scroll" /\ last.requested)
       => movedBeyondThreshold(last.position, last.lastScroll)
  /\ (last.event = "scroll"
      /\ ~movedBeyondThreshold(last.position, last.lastScroll))
       => ~last.requested
  /\ (last.event = "frame" /\ last.ranTimeline) => last.exceeded
  /\ (last.event = "frame" /\ ~last.ranTimeline)
       => scroll.viewport = last.lastScroll /\ ~last.exceeded

\* a scroll event moved the container by exactly the threshold on both axes
\* while no callback was requested, and requested none
C27_Witness ==
  /\ last.event = "scroll"
  /\ Abs(last.position.left - last.lastScroll.left) = SCROLL_THRESHOLD
  /\ Abs(last.position.top - last.lastScroll.top) = SCROLL_THRESHOLD
  /\ ~last.requested
  /\ ~scroll.rafRef

C29_EndMinusStartIsDuration ==
  \A i \in 1..Len(reservations) :
    reservations[i].endTime - reservations[i].startTime
      = reservations[i].durationMinutes

\* a redo has just restored a list of three reservations in which r1 no longer
\* has its initial start or duration
C29_Witness ==
  /\ last.event = "redo"
  /\ Len(reservations) = 3
  /\ LET r == getReservationById("r1", reservations)
     IN r.id # NULL /\ (r.startTime # 727 \/ r.durationMinutes # 60)

\* C30: after any sequence of operations, including a drag that moves a
\* reservation to a different table, the partySize of every stored reservation
\* lies within [capacity.min, capacity.max] of the table it is assigned to.
C30_PartyWithinCapacity ==
  \A i \in 1..Len(reservations) :
    LET table == tableById(reservations[i].tableId)
    IN table.id # NULL
       => /\ table.capMin <= reservations[i].partySize
          /\ reservations[i].partySize <= table.capMax

\* C31: in every reachable state of the store, after any interleaving of
\* create, update, duplicate, undo and redo, no two reservations that are not
\* CANCELLED overlap in time on the same table.
C31_StoreNeverDoubleBooked == NoDoubleBooking(reservations)

\* the interval a drag result commits, given the subject before the release
EmittedInterval(result, subject) ==
  CASE result.kind = "create" ->
         [tableId |-> result.tableId, startTime |-> result.startTime,
          endTime |-> result.endTime]
    [] result.kind = "move" ->
         [tableId |-> result.newTableId, startTime |-> result.newStartTime,
          endTime |-> result.newEndTime]
    [] result.kind = "resize" ->
         [tableId |-> subject.tableId, startTime |-> result.newStartTime,
          endTime |-> result.newEndTime]
    [] OTHER -> NoResult

OnSlotGrid(reservation) ==
  /\ reservation.startTime % SLOT_MINUTES = 0
  /\ reservation.durationMinutes % SLOT_MINUTES = 0

C34_PointerStepsLeaveStoreAlone ==
  [][last'.event \in {"down", "move"} =>
       /\ reservations' = reservations
       /\ past' = past
       /\ future' = future]_vars

\* a move session whose pointer has travelled away from the slot where it was
\* pressed, observed right after a pointer-move
C34_Witness ==
  /\ last.event = "move"
  /\ dragState.isDragging
  /\ dragState.dragType = "move"
  /\ dragState.endSlot # dragState.startSlot
  /\ Len(reservations) > 1

\* the fields of a reservation that a move or resize commit may rewrite
PlacementFields == {"tableId", "startTime", "endTime", "durationMinutes"}

\* C35: a pointer-up that emits a move or a resize changes at most the
\* subject's table, start, end and duration: the list keeps its length and
\* its order of ids, every other reservation is unchanged, and every other
\* field of the subject (id, party size, status) is unchanged.
C35_CommitTouchesOnlyPlacement ==
  [][(last'.event = "up" /\ last'.result.kind \in {"move", "resize"}) =>
       /\ Len(reservations') = Len(reservations)
       /\ \A i \in 1..Len(reservations) :
            /\ DOMAIN reservations'[i] = DOMAIN reservations[i]
            /\ reservations'[i].id = reservations[i].id
            /\ reservations[i].id # last'.result.reservationId =>
                 reservations'[i] = reservations[i]
            /\ \A f \in DOMAIN reservations[i] \ PlacementFields :
                 reservations'[i][f] = reservations[i][f]]_vars

\* a move that was committed onto another table while a second reservation
\* is in the list
C35_Witness ==
  /\ last.event = "up"
  /\ last.result.kind = "move"
  /\ SubjectNow.id # NULL
  /\ SubjectNow.tableId # last.subject.tableId
  /\ SubjectNow.startTime # last.subject.startTime
  /\ Len(reservations) > 1

\* C36: a move session released with zero slot displacement over the
\* reservation's own table (a press and release on a block) leaves the
\* reservation list, the undo stack and the redo stack as they were.
C36_PlainClickChangesNothing ==
  [][(/\ last'.event = "up"
      /\ last'.drag.isDragging
      /\ last'.drag.dragType = "move"
      /\ last'.subject.id # NULL
      /\ last'.drag.endSlot = last'.drag.startSlot
      /\ last'.drag.tableId = last'.subject.tableId) =>
       /\ reservations' = reservations
       /\ past' = past
       /\ future' = future]_vars

\* C37: in every reachable state the undo stack holds at most
\* MAX_HISTORY_SIZE entries, and the undo and redo stacks together hold at
\* most MAX_HISTORY_SIZE entries, whatever edits, undos and redos came before.
C37_HistoryBounded ==
  /\ Len(past) <= MAX_HISTORY_SIZE
  /\ Len(past) + Len(future) <= MAX_HISTORY_SIZE

\* a redo has just run while the two stacks together are full and both hold
\* entries
C37_Witness ==
  /\ last.event = "redo"
  /\ Len(past) + Len(future) = MAX_HISTORY_SIZE
  /\ Len(past) > 0
  /\ Len(future) > 0

\* C38: undo and redo are inverse. In every reachable state with a non-empty
\* undo stack, undo followed by redo gives back the same reservation list,
\* undo stack and redo stack; with a non-empty redo stack, redo followed by
\* undo does.
C38_UndoRedoInverse ==
  /\ Len(past) > 0 =>
       /\ storeUndo(store) # store
       /\ storeRedo(storeUndo(store)) = store
  /\ Len(future) > 0 =>
       /\ storeRedo(store) # store
       /\ storeUndo(storeRedo(store)) = store

\* an undo has just run and left entries on both stacks, with more than one
\* on the redo stack and a full history
C38_Witness ==
  /\ last.event = "undo"
  /\ Len(past) > 0
  /\ Len(future) > 1
  /\ Len(past) + Len(future) = MAX_HISTORY_SIZE

\* the reverse lookup of the layout that useGridLayout has just returned
LookupY(y) ==
  getTableByYPosition(last.result.tablesWithSectors, last.result.tableYOffsets,
                      last.rowHeight, y)
\* the tables whose row, as laid out, contains y
RowsContaining(y) ==
  {last.result.tableYOffsets[k].id : k \in
     {j \in DOMAIN last.result.tableYOffsets :
        /\ y >= last.result.tableYOffsets[j].y
        /\ y < last.result.tableYOffsets[j].y + last.rowHeight}}

\* C39: for every layout (any collapse set, sector filter and zoom level)
\* the lookup from y to table is well defined: no y lies in the rows of two
\* tables; a y inside a sector header, above the grid or beyond the content
\* maps to no table; every visible table has an offset, and for every
\* visible table t and every 0 <= d < rowHeight the lookup of offset(t) + d
\* returns t.
C39_ReverseLookup ==
  last.event = "useGridLayout" =>
    LET result == last.result
    IN /\ \A y \in -last.rowHeight..(result.gridHeight + last.rowHeight) :
            /\ Cardinality(RowsContaining(y)) <= 1
            /\ (y < 0 \/ y >= result.gridHeight) => LookupY(y) = NULL
            /\ (\E h \in DOMAIN result.sectorHeaderPositions :
                  /\ y >= result.sectorHeaderPositions[h].y
                  /\ y < result.sectorHeaderPositions[h].y + last.sectorHeaderHeight)
                 => LookupY(y) = NULL
       /\ \A i \in DOMAIN result.tablesWithSectors :
            \E k \in DOMAIN result.tableYOffsets :
              /\ result.tableYOffsets[k].id = result.tablesWithSectors[i].id
              /\ \A d \in 0..(last.rowHeight - 1) :
                   LookupY(result.tableYOffsets[k].y + d) = result.tablesWithSectors[i].id

\* a layout filtered to the second sector at zoom 100: its two rows are
\* found from their last pixels, the header and the end of the content map
\* to no table
C39_Witness ==
  /\ last.event = "useGridLayout"
  /\ last.filterSectorIds = {"S2"}
  /\ last.collapsed = {}
  /\ last.rowHeight = 60
  /\ Len(last.result.tablesWithSectors) = 2
  /\ LookupY(31) = NULL
  /\ LookupY(32) = "T4"
  /\ LookupY(91) = "T4"
  /\ LookupY(92) = "T5"
  /\ LookupY(151) = "T5"
  /\ LookupY(152) = NULL

\* sizes of the measured scroll container
ContainerSizes == [viewportWidth : {200, 800}, viewportHeight : {90, 300}]

\* blocks on the grid: at the left end, around the middle, at the right end
GridBlocks ==
  {[id |-> "b1", tableId |-> "T1", partySize |-> 2, startTime |-> 720,
    endTime |-> 780, durationMinutes |-> 60, status |-> "CONFIRMED"],
   [id |-> "b2", tableId |-> "T2", partySize |-> 2, startTime |-> 660,
    endTime |-> 690, durationMinutes |-> 30, status |-> "SEATED"],
   [id |-> "b3", tableId |-> "T3", partySize |-> 4, startTime |-> 735,
    endTime |-> 825, durationMinutes |-> 90, status |-> "PENDING"],
   [id |-> "b5", tableId |-> "T5", partySize |-> 4, startTime |-> 1380,
    endTime |-> 1440, durationMinutes |-> 60, status |-> "CONFIRMED"]}

\* the viewport record for a scroll position and a container size
ViewportAt(pos, size) ==
  [scrollLeft |-> pos.left, scrollTop |-> pos.top,
   viewportWidth |-> size.viewportWidth, viewportHeight |-> size.viewportHeight]

\* the row at offset y intersects the area the container shows
RowInView(y, view, zoom) ==
  /\ y + getRowHeight(zoom) > view.scrollTop
  /\ y < view.scrollTop + view.viewportHeight

\* the block of a reservation intersects the area the container shows
BlockInView(reservation, view, zoom) ==
  LET slotWidth == getSlotWidth(zoom)
      startSlot == timeToSlotIndex(reservation.startTime)
      endSlot == startSlot + durationToSlots(reservation.durationMinutes)
      offs == computeLayout({}, zoom).offsets
  IN /\ endSlot * slotWidth > view.scrollLeft
     /\ startSlot * slotWidth < view.scrollLeft + view.viewportWidth
     /\ \E k \in 1..Len(offs) :
          offs[k].id = reservation.tableId /\ RowInView(offs[k].y, view, zoom)

\* C40: whenever no frame callback of Timeline.handleScroll is pending, the
\* scroll position held in the viewport state differs from the container's
\* scroll position by at most SCROLL_THRESHOLD pixels on each axis, and
\* every table row and every reservation block that intersects the area the
\* container shows is in the rendered set computed from the viewport state.
C40_StaleViewportStillCovers ==
  ~scroll.rafRef =>
    /\ Abs(scroll.dom.left - scroll.viewport.left) <= SCROLL_THRESHOLD
    /\ Abs(scroll.dom.top - scroll.viewport.top) <= SCROLL_THRESHOLD
    /\ \A size \in ContainerSizes, zoom \in InitialZoomLevels :
         LET held == ViewportAt(scroll.viewport, size)
             shown == ViewportAt(scroll.dom, size)
             offs == computeLayout({}, zoom).offsets
             rows == visibleTables(held, {}, zoom)
         IN /\ \A k \in 1..Len(offs) :
                 RowInView(offs[k].y, shown, zoom) =>
                   \E j \in 1..Len(rows) : rows[j] = offs[k]
            /\ \A reservation \in GridBlocks :
                 BlockInView(reservation, shown, zoom) =>
                   isBlockRendered(reservation, held, {}, zoom)

\* after a recompute away from the origin the container has been scrolled
\* again, within the threshold, and no frame callback is pending
C40_Witness ==
  /\ last.event = "scroll"
  /\ ~scroll.rafRef
  /\ scroll.viewport # ScrollOrigin
  /\ scroll.dom # scroll.viewport
  /\ \E reservation \in GridBlocks :
       /\ BlockInView(reservation, ViewportAt(scroll.dom, [viewportWidth |-> 200,
                                                            viewportHeight |-> 90]), 100)
       /\ ~BlockInView(reservation, ViewportAt(scroll.viewport,
                                                [viewportWidth |-> 200,
                                                 viewportHeight |-> 90]), 100)

====
